---- MODULE Spec2Model ----
(***************************************************************************)
(* DayPlanner: the plan-optimization subsystem (main process, ollama.ts)   *)
(* and the renderer's propose / apply / discard protocol over the live     *)
(* task list (preload/index.ts, App component).                            *)
(*                                                                         *)
(* Strings that the code takes apart (clock texts, advisor replies) are    *)
(* sequences of one-character strings; opaque strings (ids, titles, dates) *)
(* are TLA+ strings.                                                       *)
(***************************************************************************)
EXTENDS Integers, Sequences, FiniteSets, TLC

(***************************************************************************)
(* Bounds of the model.                                                    *)
(***************************************************************************)
\* largest number of tasks in a state handed to fallbackOptimize alone
MaxTasks == 3
\* largest number of tasks in a state handed to optimizePlanWithOllama
MaxAdvised == 2
\* largest number of entries in the advisor's update list
MaxUpdates == 2

(***************************************************************************)
(* JavaScript string primitives on character sequences.                    *)
(***************************************************************************)
Digits == <<"0", "1", "2", "3", "4", "5", "6", "7", "8", "9">>

IsDigit(c) == \E i \in 1..10 : Digits[i] = c

DigitVal(c) == (CHOOSE i \in 1..10 : Digits[i] = c) - 1

\* String.prototype.split(sep) for a one-character separator
RECURSIVE split(_, _)
split(s, sep) ==
  IF \A i \in 1..Len(s) : s[i] # sep
  THEN <<s>>
  ELSE LET k == CHOOSE i \in 1..Len(s) : s[i] = sep /\ \A j \in 1..(i - 1) : s[j] # sep
       IN  <<SubSeq(s, 1, k - 1)>> \o split(SubSeq(s, k + 1, Len(s)), sep)

\* Number(s) for a string of decimal digits (the empty string gives 0)
RECURSIVE Number(_)
Number(s) ==
  IF s = <<>> THEN 0
  ELSE Number(SubSeq(s, 1, Len(s) - 1)) * 10 + DigitVal(s[Len(s)])

\* String(n) for a natural number
RECURSIVE String(_)
String(n) ==
  IF n < 10 THEN <<Digits[n + 1]>>
  ELSE String(n \div 10) \o <<Digits[(n % 10) + 1]>>

\* String.prototype.padStart(targetLength, padChar)
RECURSIVE padStart(_, _, _)
padStart(s, n, c) == IF Len(s) >= n THEN s ELSE padStart(<<c>> \o s, n, c)

\* collation rank of the characters used: punctuation, then digits, then letters
CharRank(c) == IF c = ":" THEN 0 ELSE IF IsDigit(c) THEN 1 + DigitVal(c) ELSE 11

\* String.prototype.localeCompare: negative, zero or positive
RECURSIVE localeCompare(_, _)
localeCompare(a, b) ==
  IF a = <<>> /\ b = <<>> THEN 0
  ELSE IF a = <<>> THEN -1
  ELSE IF b = <<>> THEN 1
  ELSE IF CharRank(a[1]) < CharRank(b[1]) THEN -1
  ELSE IF CharRank(a[1]) > CharRank(b[1]) THEN 1
  ELSE localeCompare(Tail(a), Tail(b))

\* /^\d{2}:\d{2}$/.test(s) for a string s
TimeRe(s) ==
  /\ Len(s) = 5
  /\ IsDigit(s[1]) /\ IsDigit(s[2])
  /\ s[3] = ":"
  /\ IsDigit(s[4]) /\ IsDigit(s[5])

(***************************************************************************)
(* Interval model of the main process: toMins / fromMins.                  *)
(***************************************************************************)
toMins(t) ==
  LET parts == split(t, ":")
      h == Number(parts[1])
      m == Number(parts[2])
  IN  h * 60 + m

\* mutant: the minutes are dropped
fromMinsHourOnly(m) ==
  padStart(String(m \div 60), 2, "0") \o <<":", "0", "0">>

fromMins(m) ==
  padStart(String(m \div 60), 2, "0") \o <<":">> \o padStart(String(m % 60), 2, "0")

(***************************************************************************)
(* Array.prototype.sort with the comparator                                *)
(* (a, b) => a.startTime.localeCompare(b.startTime); the sort is stable.   *)
(***************************************************************************)
RECURSIVE insertByStartTime(_, _)
insertByStartTime(sorted, task) ==
  IF sorted = <<>> THEN <<task>>
  ELSE LET last == sorted[Len(sorted)]
       IN  IF localeCompare(last.startTime, task.startTime) <= 0
           THEN Append(sorted, task)
           ELSE Append(insertByStartTime(SubSeq(sorted, 1, Len(sorted) - 1), task), last)

RECURSIVE sortByStartTime(_)
sortByStartTime(ts) ==
  IF ts = <<>> THEN <<>>
  ELSE insertByStartTime(sortByStartTime(SubSeq(ts, 1, Len(ts) - 1)), ts[Len(ts)])

\* Array.prototype.filter
RECURSIVE filterFixed(_, _)
filterFixed(ts, wanted) ==
  IF ts = <<>> THEN <<>>
  ELSE IF (ts[1].fixed # 0) = wanted
       THEN <<ts[1]>> \o filterFixed(Tail(ts), wanted)
       ELSE filterFixed(Tail(ts), wanted)

(***************************************************************************)
(* fallbackOptimize (ollama.ts 228-274).                                   *)
(***************************************************************************)
NotFound == -1

FallbackSummary ==
  "Flexible tasks were rearranged to minimize gaps and avoid conflicts with fixed commitments."

\* mutant: the scan does not look at the occupied windows
findSlotIgnoresOccupied(slotStart, attempt, duration, occupied) ==
  IF slotStart + duration <= 23 * 60 THEN slotStart ELSE NotFound

\* a scan that accepts the last of the slots that fit, not the first
findSlotLast(slotStart, attempt, duration, occupied) ==
  LET slotOf(a) == slotStart + 15 * (a - attempt)
      fits(a)   == LET slotEnd   == slotOf(a) + duration
                       conflicts == \E i \in 1..Len(occupied) :
                                      slotOf(a) < occupied[i].end /\ slotEnd > occupied[i].start
                   IN  ~conflicts /\ slotEnd <= 23 * 60
      attempts  == attempt..(24 * 4 - 1)
  IN  IF \E a \in attempts : fits(a)
      THEN slotOf(CHOOSE a \in attempts : fits(a) /\ \A b \in (a + 1)..(24 * 4 - 1) : ~fits(b))
      ELSE NotFound

\* the scan of lines 252-263: the accepted slotStart, or NotFound; the attempts
\* from attempt on try the slots 15 minutes apart and the first that fits is taken
findSlot(slotStart, attempt, duration, occupied) ==
  LET slotOf(a) == slotStart + 15 * (a - attempt)
      fits(a)   == LET slotEnd   == slotOf(a) + duration
                       conflicts == \E i \in 1..Len(occupied) :
                                      slotOf(a) < occupied[i].end /\ slotEnd > occupied[i].start
                   IN  ~conflicts /\ slotEnd <= 23 * 60
      attempts  == attempt..(24 * 4 - 1)
  IN  IF \E a \in attempts : fits(a)
      THEN slotOf(CHOOSE a \in attempts : fits(a) /\ \A b \in attempt..(a - 1) : ~fits(b))
      ELSE NotFound

\* a loop in which a task that is passed through moves the cursor by a slot
RECURSIVE placeFlexibleSkipAdvances(_, _, _, _, _)
placeFlexibleSkipAdvances(sortedFlex, i, occupied, cursor, placed) ==
  IF i > Len(sortedFlex) THEN [placed |-> placed, occupied |-> occupied, cursor |-> cursor]
  ELSE LET task     == sortedFlex[i]
           duration == toMins(task.endTime) - toMins(task.startTime)
           slotStart == IF duration <= 0 THEN NotFound
                        ELSE findSlot(cursor, 0, duration, occupied)
           slotEnd   == slotStart + duration
       IN  IF slotStart # NotFound
           THEN placeFlexibleSkipAdvances(sortedFlex, i + 1,
                  Append(occupied, [start |-> slotStart, end |-> slotEnd]),
                  slotEnd,
                  Append(placed, [task EXCEPT !.startTime = fromMins(slotStart),
                                              !.endTime   = fromMins(slotEnd)]))
           ELSE placeFlexibleSkipAdvances(sortedFlex, i + 1, occupied, cursor + 15,
                                          Append(placed, task))

\* mutant: every scan starts at 07:00, the cursor is not moved
RECURSIVE placeFlexibleFromSeven(_, _, _, _, _)
placeFlexibleFromSeven(sortedFlex, i, occupied, cursor, placed) ==
  IF i > Len(sortedFlex) THEN [placed |-> placed, occupied |-> occupied, cursor |-> cursor]
  ELSE LET task     == sortedFlex[i]
           duration == toMins(task.endTime) - toMins(task.startTime)
           slotStart == IF duration <= 0 THEN NotFound
                        ELSE findSlot(cursor, 0, duration, occupied)
           slotEnd   == slotStart + duration
       IN  IF slotStart # NotFound
           THEN placeFlexibleFromSeven(sortedFlex, i + 1,
                  Append(occupied, [start |-> slotStart, end |-> slotEnd]),
                  cursor,
                  Append(placed, [task EXCEPT !.startTime = fromMins(slotStart),
                                              !.endTime   = fromMins(slotEnd)]))
           ELSE placeFlexibleFromSeven(sortedFlex, i + 1, occupied, cursor,
                                       Append(placed, task))

\* the loop of lines 244-266 over sortedFlex from index i on
RECURSIVE placeFlexible(_, _, _, _, _)
placeFlexible(sortedFlex, i, occupied, cursor, placed) ==
  IF i > Len(sortedFlex) THEN [placed |-> placed, occupied |-> occupied, cursor |-> cursor]
  ELSE LET task     == sortedFlex[i]
           duration == toMins(task.endTime) - toMins(task.startTime)
       IN  IF duration <= 0
           THEN placeFlexible(sortedFlex, i + 1, occupied, cursor, Append(placed, task))
           ELSE LET slotStart == findSlot(cursor, 0, duration, occupied)
                    slotEnd   == slotStart + duration
                IN  IF slotStart # NotFound
                    THEN placeFlexible(sortedFlex, i + 1,
                           Append(occupied, [start |-> slotStart, end |-> slotEnd]),
                           slotEnd,
                           Append(placed, [task EXCEPT !.startTime = fromMins(slotStart),
                                                       !.endTime   = fromMins(slotEnd)]))
                    ELSE placeFlexible(sortedFlex, i + 1, occupied, cursor, Append(placed, task))

\* mutant: the fixed filter is lost and every task is placed like a flexible one
fallbackOptimizeMovesFixed(st) ==
  LET sortedFlex == sortByStartTime(st.tasks)
      loop       == placeFlexible(sortedFlex, 1, <<>>, 7 * 60, <<>>)
  IN  [tasks |-> sortByStartTime(loop.placed), summary |-> FallbackSummary]

\* mutant: the flexible tasks are placed latest start first
fallbackOptimizeLatestFirst(st) ==
  LET fixed      == filterFixed(st.tasks, TRUE)
      flexible   == filterFixed(st.tasks, FALSE)
      byStart    == sortByStartTime(flexible)
      sortedFlex == [i \in 1..Len(byStart) |-> byStart[Len(byStart) + 1 - i]]
      occupied   == [i \in 1..Len(fixed) |->
                       [start |-> toMins(fixed[i].startTime), end |-> toMins(fixed[i].endTime)]]
      loop       == placeFlexible(sortedFlex, 1, occupied, 7 * 60, <<>>)
      all        == sortByStartTime(fixed \o loop.placed)
  IN  [tasks |-> all, summary |-> FallbackSummary]

fallbackOptimize(st) ==
  LET fixed      == filterFixed(st.tasks, TRUE)
      flexible   == filterFixed(st.tasks, FALSE)
      sortedFlex == sortByStartTime(flexible)
      occupied   == [i \in 1..Len(fixed) |->
                       [start |-> toMins(fixed[i].startTime), end |-> toMins(fixed[i].endTime)]]
      loop       == placeFlexible(sortedFlex, 1, occupied, 7 * 60, <<>>)
      all        == sortByStartTime(fixed \o loop.placed)
  IN  [tasks |-> all, summary |-> FallbackSummary]

(***************************************************************************)
(* JavaScript values read from the advisor's reply.  A value is a record   *)
(* with a type tag t:  null, undefined, a string (s), an array (a) or an   *)
(* object (m, a function from member names to values).                     *)
(***************************************************************************)
JNull == [t |-> "null"]

JUndefined == [t |-> "undefined"]

JStr(s) == [t |-> "str", s |-> s]

JArr(a) == [t |-> "arr", a |-> a]

JObj(m) == [t |-> "obj", m |-> m]

\* v[key] for a value that is not null or undefined
Get(v, key) ==
  IF v.t = "obj" /\ key \in DOMAIN v.m THEN v.m[key] ELSE JUndefined

Chars(w) ==
  CASE w = "null"      -> <<"n", "u", "l", "l">>
    [] w = "undefined" -> <<"u", "n", "d", "e", "f", "i", "n", "e", "d">>

\* ToStringJS(v), the coercion RegExp.prototype.test applies to its argument
ToStringJS(v) ==
  CASE v.t = "str"       -> v.s
    [] v.t = "null"      -> Chars("null")
    [] v.t = "undefined" -> Chars("undefined")

(***************************************************************************)
(* The reply text as a sequence of lexical tokens: the punctuation of      *)
(* JSON, string literals, the literal null, and words of other text.       *)
(***************************************************************************)
Tok(k) == [k |-> k]

StrTok(s) == [k |-> "str", s |-> s]

\* String.prototype.indexOf / lastIndexOf of a token; 0 stands for -1
indexOf(text, k) ==
  IF \E i \in 1..Len(text) : text[i].k = k
  THEN CHOOSE i \in 1..Len(text) : text[i].k = k /\ \A j \in 1..(i - 1) : text[j].k # k
  ELSE 0

lastIndexOf(text, k) ==
  IF \E i \in 1..Len(text) : text[i].k = k
  THEN CHOOSE i \in 1..Len(text) : text[i].k = k /\ \A j \in (i + 1)..Len(text) : text[j].k # k
  ELSE 0

\* an extraction that stops at the first closing brace after the opening one
extractJsonFirstClose(text) ==
  LET start == indexOf(text, "{")
      end   == lastIndexOf(text, "}")
  IN  IF start # 0 /\ end > start
      THEN SubSeq(text, start,
                  CHOOSE j \in (start + 1)..end :
                    text[j].k = "}" /\ \A i \in (start + 1)..(j - 1) : text[i].k # "}")
      ELSE text

\* extractJson (ollama.ts 73-79)
extractJson(text) ==
  LET start == indexOf(text, "{")
      end   == lastIndexOf(text, "}")
  IN  IF start # 0 /\ end > start THEN SubSeq(text, start, end) ELSE text

(***************************************************************************)
(* JSON.parse on tokens.  parseValue(text, i) reads one value starting at  *)
(* token i: [ok, v, next]; ok = FALSE is the SyntaxError.                  *)
(***************************************************************************)
SyntaxError == [ok |-> FALSE]

Parsed(v, next) == [ok |-> TRUE, v |-> v, next |-> next]

IsTok(text, i, k) == i <= Len(text) /\ text[i].k = k

RECURSIVE parseValue(_, _)
RECURSIVE parseElements(_, _, _)
RECURSIVE parseMembers(_, _, _)

parseValue(text, i) ==
  IF i > Len(text) THEN SyntaxError
  ELSE CASE text[i].k = "null" -> Parsed(JNull, i + 1)
         [] text[i].k = "str"  -> Parsed(JStr(text[i].s), i + 1)
         [] text[i].k = "["    ->
              IF IsTok(text, i + 1, "]") THEN Parsed(JArr(<<>>), i + 2)
              ELSE parseElements(text, i + 1, <<>>)
         [] text[i].k = "{"    ->
              IF IsTok(text, i + 1, "}") THEN Parsed(JObj(<<>>), i + 2)
              ELSE parseMembers(text, i + 1, <<>>)
         [] OTHER -> SyntaxError

\* the elements of an array after "[" or ","
parseElements(text, i, acc) ==
  LET e == parseValue(text, i)
  IN  IF ~e.ok THEN SyntaxError
      ELSE IF IsTok(text, e.next, ",") THEN parseElements(text, e.next + 1, Append(acc, e.v))
      ELSE IF IsTok(text, e.next, "]") THEN Parsed(JArr(Append(acc, e.v)), e.next + 1)
      ELSE SyntaxError

\* the members of an object after "{" or ","; a repeated name keeps the last value
parseMembers(text, i, acc) ==
  IF ~(IsTok(text, i, "str") /\ IsTok(text, i + 1, ":")) THEN SyntaxError
  ELSE LET e == parseValue(text, i + 2)
       IN  IF ~e.ok THEN SyntaxError
           ELSE LET m == (text[i].s :> e.v) @@ acc
                IN  IF IsTok(text, e.next, ",") THEN parseMembers(text, e.next + 1, m)
                    ELSE IF IsTok(text, e.next, "}") THEN Parsed(JObj(m), e.next + 1)
                    ELSE SyntaxError

\* JSON.parse(text): the whole text must be one value
JSONparse(text) ==
  LET r == parseValue(text, 1)
  IN  IF r.ok /\ r.next = Len(text) + 1 THEN r ELSE SyntaxError

(***************************************************************************)
(* optimizePlanWithOllama (ollama.ts 280-330).  A step of the try block    *)
(* either returns a value or throws.                                       *)
(***************************************************************************)
Thrown == [ok |-> FALSE]

Returned(v) == [ok |-> TRUE, value |-> v]

\* parsed.tasks.find((p) => p.id === task.id); reading .id of null throws
RECURSIVE find(_, _, _)
find(list, i, id) ==
  IF i > Len(list) THEN Returned(JUndefined)
  ELSE IF list[i].t = "null" THEN Thrown
  ELSE IF Get(list[i], "id") = JStr(id) THEN Returned(list[i])
  ELSE find(list, i + 1, id)

\* the update a task is given when its times are accepted
Accept(task, update) ==
  Returned([task EXCEPT !.startTime = Get(update, "startTime").s,
                        !.endTime   = Get(update, "endTime").s])

WellFormedTimes(update) ==
  /\ TimeRe(ToStringJS(Get(update, "startTime")))
  /\ TimeRe(ToStringJS(Get(update, "endTime")))

\* mutant: the fixed flag is not looked at
applyUpdateIgnoresFixed(task, updates) ==
  LET f == find(updates, 1, task.id)
  IN  IF ~f.ok THEN Thrown
      ELSE IF f.value = JUndefined THEN Returned(task)
      ELSE IF ~WellFormedTimes(f.value) THEN Returned(task)
      ELSE Accept(task, f.value)

\* mutant: a malformed time throws, so the whole batch is given up
applyUpdateThrowsOnMalformed(task, updates) ==
  IF task.fixed # 0 THEN Returned(task)
  ELSE LET f == find(updates, 1, task.id)
       IN  IF ~f.ok THEN Thrown
           ELSE IF f.value = JUndefined THEN Returned(task)
           ELSE IF ~WellFormedTimes(f.value) THEN Thrown
           ELSE Accept(task, f.value)

\* mutant: the whole update is spread into the task
applyUpdateSpreadsUpdate(task, updates) ==
  IF task.fixed # 0 THEN Returned(task)
  ELSE LET f == find(updates, 1, task.id)
       IN  IF ~f.ok THEN Thrown
           ELSE IF f.value = JUndefined THEN Returned(task)
           ELSE IF ~WellFormedTimes(f.value) THEN Returned(task)
           ELSE Returned([task EXCEPT !.startTime = Get(f.value, "startTime").s,
                                      !.endTime   = Get(f.value, "endTime").s,
                                      !.title     = Get(f.value, "title").s])

\* the callback of state.tasks.map (lines 316-323)
applyUpdate(task, updates) ==
  IF task.fixed # 0 THEN Returned(task)
  ELSE LET f == find(updates, 1, task.id)
       IN  IF ~f.ok THEN Thrown
           ELSE LET update == f.value
                IN  IF update = JUndefined THEN Returned(task)
                    ELSE IF \/ ~TimeRe(ToStringJS(Get(update, "startTime")))
                            \/ ~TimeRe(ToStringJS(Get(update, "endTime")))
                         THEN Returned(task)
                    ELSE Accept(task, update)

\* lines 312-325: the shape check and the map over state.tasks
applyResponse(st, parsed) ==
  LET tasks   == Get(parsed, "tasks")
      summary == Get(parsed, "summary")
  IN  IF tasks.t # "arr" \/ summary.t # "str" THEN Thrown
      ELSE LET mapped == [i \in 1..Len(st.tasks) |-> applyUpdate(st.tasks[i], tasks.a)]
           IN  IF \E i \in 1..Len(mapped) : ~mapped[i].ok THEN Thrown
               ELSE Returned([tasks   |-> [i \in 1..Len(mapped) |-> mapped[i].value],
                              summary |-> summary.s])

\* the try block (lines 305-325) for one outcome of callAvailableProvider
tryAdvisor(st, outcome) ==
  IF outcome.kind = "rejects" THEN Thrown
  ELSE LET json == extractJson(outcome.raw)
           p    == JSONparse(json)
       IN  IF ~p.ok THEN Thrown
           ELSE IF p.v.t = "null" THEN Thrown    \* parsed.tasks of null: TypeError
           ELSE applyResponse(st, p.v)

\* how the promise of an async function settles
Fulfilled(v) == [settled |-> "fulfilled", value |-> v]

Rejected == [settled |-> "rejected"]

\* mutant: no catch around the try block
optimizePlanWithOllamaNoCatch(st, outcome) ==
  LET r == tryAdvisor(st, outcome)
  IN  IF r.ok THEN Fulfilled(r.value) ELSE Rejected

optimizePlanWithOllama(st, outcome) ==
  LET r == tryAdvisor(st, outcome)
  IN  IF r.ok THEN Fulfilled(r.value) ELSE Fulfilled(fallbackOptimize(st))

(***************************************************************************)
(* Inputs: the states handed to the optimizer.                             *)
(***************************************************************************)
IdPool == <<"task-1", "task-2", "task-3", "task-4", "task-5">>

T0600 == <<"0", "6", ":", "0", "0">>
T0630 == <<"0", "6", ":", "3", "0">>
T0700 == <<"0", "7", ":", "0", "0">>
T0730 == <<"0", "7", ":", "3", "0">>
T0800 == <<"0", "8", ":", "0", "0">>
T0830 == <<"0", "8", ":", "3", "0">>
T0900 == <<"0", "9", ":", "0", "0">>
T0915 == <<"0", "9", ":", "1", "5">>
T1000 == <<"1", "0", ":", "0", "0">>
T1100 == <<"1", "1", ":", "0", "0">>
T2200 == <<"2", "2", ":", "0", "0">>
T2250 == <<"2", "2", ":", "5", "0">>
T2252 == <<"2", "2", ":", "5", "2">>
T2330 == <<"2", "3", ":", "3", "0">>

\* <<startTime, endTime>> of the tasks of an input state
TaskTimes == {<<T0700, T0800>>, <<T0730, T0830>>, <<T0900, T0915>>, <<T1000, T1000>>}

\* with a task longer than the 16 hours between 07:00 and 23:00
LongTaskTimes == TaskTimes \cup {<<T0600, T2330>>}

AdvisedTimes == {<<T0700, T0800>>, <<T0900, T0915>>}

Dates == {"2026-01-01", "2026-01-02"}

DbTask(id, times, date, fixed) ==
  [id |-> id, title |-> "title", taskDate |-> date,
   startTime |-> times[1], endTime |-> times[2],
   tagId |-> "null", notes |-> "", fixed |-> fixed, done |-> 0]

\* the list of n tasks with the ids IdPool[1..n]; c[i] = <<times, taskDate, fixed>>
TaskList(n, c) == [i \in 1..n |-> DbTask(IdPool[i], c[i][1], c[i][2], c[i][3])]

PlannerState(tasks) == [tags |-> <<>>, tasks |-> tasks]

(***************************************************************************)
(* Inputs: what callAvailableProvider can come back with.                  *)
(***************************************************************************)
\* JSON.stringify, members in the order of MemberOrder
MemberOrder == <<"summary", "tasks", "id", "startTime", "endTime", "title">>

RECURSIVE Stringify(_)
RECURSIVE StringifyMembers(_, _, _)
RECURSIVE StringifyElements(_, _)

Stringify(v) ==
  CASE v.t = "null" -> <<Tok("null")>>
    [] v.t = "str"  -> <<StrTok(v.s)>>
    [] v.t = "arr"  -> <<Tok("[")>> \o StringifyElements(v.a, 1) \o <<Tok("]")>>
    [] v.t = "obj"  -> <<Tok("{")>> \o StringifyMembers(v.m, 1, TRUE) \o <<Tok("}")>>

StringifyElements(a, i) ==
  IF i > Len(a) THEN <<>>
  ELSE (IF i > 1 THEN <<Tok(",")>> ELSE <<>>) \o Stringify(a[i]) \o StringifyElements(a, i + 1)

StringifyMembers(m, k, first) ==
  IF k > Len(MemberOrder) THEN <<>>
  ELSE IF MemberOrder[k] \notin DOMAIN m THEN StringifyMembers(m, k + 1, first)
  ELSE (IF first THEN <<>> ELSE <<Tok(",")>>)
       \o <<StrTok(MemberOrder[k]), Tok(":")>> \o Stringify(m[MemberOrder[k]])
       \o StringifyMembers(m, k + 1, FALSE)

\* <<startTime, endTime>> of an update: well formed, malformed start, malformed end
T900   == <<"9", ":", "0", "0">>
T110T  == <<"1", "1", ":", "0", "T">>
T9999  == <<"9", "9", ":", "9", "9">>

UpdateTimes == {<<T1000, T1100>>, <<T900, T1000>>, <<T1000, T110T>>}

GhostId == "task-0"

Update(id, times) ==
  JObj([id |-> JStr(id), startTime |-> JStr(times[1]), endTime |-> JStr(times[2]),
        title |-> JStr("advised")])

UpdateChoices(st) ==
  { Update(id, times) : id \in {st.tasks[i].id : i \in 1..Len(st.tasks)} \cup {GhostId},
                        times \in UpdateTimes }

\* the update lists sent: updates of one task are adjacent, in the order of IdPool
IdRank(id) == IF id = GhostId THEN 0 ELSE CHOOSE i \in 1..Len(IdPool) : IdPool[i] = id

Ordered(us) ==
  \A i \in 1..(Len(us) - 1) : IdRank(us[i].m.id.s) <= IdRank(us[i + 1].m.id.s)

Response(summary, tasks) == JObj([summary |-> summary, tasks |-> tasks])

Word == Tok("word")

\* a reply of the expected shape, bare or inside other text
ShapedReply(us, wrapped) ==
  LET text == Stringify(Response(JStr("ok"), JArr(us)))
  IN  IF wrapped THEN <<Word>> \o text \o <<Word>> ELSE text

\* replies that do not parse, or parse to a value of another shape
OtherReplies(st) ==
  LET one == <<Update(st.tasks[1].id, <<T1000, T1100>>)>>
  IN  { <<>>,
        <<Word>>,
        Stringify(Response(JStr("ok"), JArr(one))) \o <<Word, Tok("}")>>,
        <<Tok("{"), Word, Tok("}")>>,
        Stringify(JNull),
        Stringify(JArr(one)),
        Stringify(JObj([summary |-> JStr("ok")])),
        Stringify(JObj([tasks |-> JArr(one)])),
        Stringify(Response(JNull, JArr(one))),
        Stringify(Response(JStr("ok"), JStr("none"))),
        Stringify(Response(JStr("ok"), JArr(<<JNull>> \o one))),
        Stringify(Response(JStr("ok"), JArr(one \o <<JNull>>))) }

Resolves(raw) == [kind |-> "resolves", raw |-> raw]

Rejects == [kind |-> "rejects"]

(***************************************************************************)
(* State.                                                                  *)
(***************************************************************************)
VARIABLES
  state,    \* the PlannerState argument of the optimizer call
  pc,       \* the call's position: "idle", "await" (callAvailableProvider), "done"
  reply,    \* how callAvailableProvider settled, JNull before
  result    \* how the optimizer's promise settled, JNull before

\* the renderer (App component)
VARIABLES
  loaded,        \* the state of the database has been received
  tags,
  tasks,         \* the live task list
  selectedDate,
  editState,     \* JNull, or [task, isNew] while the edit modal is open
  optimization,  \* JNull, or the staged proposal [tasks, summary]
  optimizing,
  captured,      \* the `tasks` the running requestOptimization closed over
  uuids,         \* how many ids crypto.randomUUID has handed out
  gestures,      \* how many tasks, tags, drags and optimizations the user has started
  dragStateRef,  \* dragStateRef.current
  gesture,       \* the closure of the running handleTaskMouseDown:
                 \* [task, latestClientY, frameRequested]; JNull without listeners;
                 \* with the history far: the mouse was more than 3 pixels from
                 \* where it was pressed
  pending,       \* the closures of released gestures whose animation frame has yet
                 \* to run, in the order of their requests: [task, latestClientY]
  tagFilter,     \* the tag the sidebar filters by, or "null"
  columns,       \* the memo of computeColumns: taskId -> [col, totalCols]
  prev           \* history: JNull, or the step of the proposal protocol that ran
                 \* last and the live list and the proposal it found

\* the main process besides the optimizer call
VARIABLES
  clock,    \* a clock conversion: JNull, its argument, or its argument and results
  env,      \* [enabled, dotenv, assets, build]: EMBEDDED_AI_ENABLED, whether it is
            \* set in .env (not in the environment of the process), the bundled
            \* files, the ai-runtime module of the build
  call,     \* the running callAvailableProvider: JNull, or [kind], suspended at
            \* await initEmbeddedRuntime(); [kind, messages] for the request of
            \* optimizePlanWithOllama
  sent      \* the advisor calls sent so far: a sequence of [kind, to]

\* the module state of ai-runtime and the processes it has spawned
VARIABLES
  runtimeProcess,    \* NoChild, or the index in children of the child it refers to
  runtimeStarted,
  lastRuntimeError,  \* "undefined" or a message (unnamed/part_002 only)
  children,          \* the spawned children, in the order of their spawn: "alive",
                     \* "failed" (the spawn failed, its error event is to come),
                     \* "killed" (signalled, its exit event is to come), "gone"
  inits              \* the calls of initEmbeddedRuntime, in the order of their
                     \* start: "health" (the first await isHealthy()), "poll"
                     \* (the wait for the runtime), "returned"

runtimeVars == <<runtimeProcess, runtimeStarted, lastRuntimeError, children, inits>>

serviceVars == <<clock, env, call, sent, runtimeVars>>

optimizerVars == <<state, pc, reply, result, serviceVars>>

rendererVars == <<loaded, tags, tasks, selectedDate, editState, optimization,
                  optimizing, captured, uuids, gestures, dragStateRef, gesture,
                  pending, tagFilter, columns, prev>>

vars == <<optimizerVars, rendererVars>>

\* the environment of a default installation without bundled assets
DefaultEnv ==
  [enabled |-> TRUE, dotenv |-> FALSE, assets |-> FALSE, build |-> "src/main/ai-runtime.ts"]

\* runtimeProcess === null
NoChild == 0

\* ai-runtime as it is imported: no child, no call
RuntimeIdle ==
  /\ runtimeProcess = NoChild
  /\ runtimeStarted = FALSE
  /\ lastRuntimeError = "undefined"
  /\ children = <<>>
  /\ inits = <<>>

\* no conversion and no advisor call under way
ServiceIdle ==
  /\ RuntimeIdle
  /\ clock = JNull
  /\ env = DefaultEnv
  /\ call = JNull
  /\ sent = <<>>

\* the renderer as it is constructed (useState initial values)
Mounted ==
  /\ loaded = FALSE
  /\ tags = <<>>
  /\ tasks = <<>>
  /\ selectedDate = "2026-01-01"
  /\ editState = JNull
  /\ optimization = JNull
  /\ optimizing = FALSE
  /\ captured = <<>>
  /\ uuids = 0
  /\ gestures = 0
  /\ dragStateRef = JNull
  /\ gesture = JNull
  /\ tagFilter = "null"
  /\ pending = <<>>
  /\ columns = [id \in {} |-> JNull]
  /\ prev = JNull

(***************************************************************************)
(* optimizePlanWithOllama called on a state: the function suspends at the  *)
(* await of callAvailableProvider and finishes when the provider settles.  *)
(***************************************************************************)
Settle(outcome) ==
  /\ reply' = outcome
  /\ result' = optimizePlanWithOllama(state, outcome)
  /\ pc' = "done"
  /\ UNCHANGED <<state, serviceVars, rendererVars>>

\* the provider call rejects (unreachable, HTTP error, timeout)
ProviderRejects ==
  /\ pc = "await"
  /\ Settle(Rejects)

\* the provider answers with a reply of the expected shape
ProviderReplies ==
  /\ pc = "await"
  /\ \E n \in 0..MaxUpdates : \E us \in [1..n -> UpdateChoices(state)] :
       \E wrapped \in {b \in BOOLEAN : b => n <= 1} :
         Ordered(us) /\ Settle(Resolves(ShapedReply(us, wrapped)))

\* the provider answers with some other text
ProviderRepliesOther ==
  /\ pc = "await"
  /\ \E raw \in OtherReplies(state) : Settle(Resolves(raw))

\* the provider answers with an update whose times are no times of day
ProviderRepliesOutOfRange ==
  /\ pc = "await"
  /\ \E id \in { state.tasks[i].id : i \in 1..Len(state.tasks) } :
       Settle(Resolves(ShapedReply(<<Update(id, <<T9999, T9999>>)>>, FALSE)))

OptimizeInit ==
  /\ \E n \in 1..MaxAdvised : \E c \in [1..n -> AdvisedTimes \X {"2026-01-01"} \X {0, 1}] :
       state = PlannerState(TaskList(n, c))
  /\ pc = "await"
  /\ reply = JNull
  /\ result = JNull
  /\ ServiceIdle
  /\ Mounted

OptimizeNext ==
  \/ ProviderRejects
  \/ ProviderReplies
  \/ ProviderRepliesOther
  \/ ProviderRepliesOutOfRange

OptimizeSpec == OptimizeInit /\ [][OptimizeNext]_vars

(***************************************************************************)
(* extractJson and JSON.parse applied to a reply: a JSON object, or none,  *)
(* between two pieces of other text.                                       *)
(***************************************************************************)
\* the longest other text on each side of the object, in tokens
MaxExtra == 2

\* other text: words and braces
ExtraTexts == UNION { [1..n -> {Word, Tok("{"), Tok("}")}] : n \in 0..MaxExtra }

\* the objects a reply holds: none, {"summary":"ok","tasks":[]}, and a plan
\* with one update
ReplyObjects ==
  { <<>>,
    Stringify(Response(JStr("ok"), JArr(<<>>))),
    Stringify(Response(JStr("ok"), JArr(<<Update(GhostId, <<T1000, T1100>>)>>))) }

MadeReply(before, object, after) ==
  [kind |-> "resolves", raw |-> before \o object \o after,
   before |-> before, object |-> object, after |-> after]

Extracted(span) == [settled |-> "extracted", span |-> span, parsed |-> JSONparse(span)]

ExtractInit ==
  /\ state = PlannerState(<<>>)
  /\ pc = "reply"
  /\ \E before \in ExtraTexts : \E object \in ReplyObjects : \E after \in ExtraTexts :
       reply = MadeReply(before, object, after)
  /\ result = JNull
  /\ ServiceIdle
  /\ Mounted

\* extractJson(raw) and JSON.parse of lines 306-307
extractReply ==
  /\ pc = "reply"
  /\ result' = Extracted(extractJson(reply.raw))
  /\ pc' = "done"
  /\ UNCHANGED <<state, reply, serviceVars, rendererVars>>

ExtractNext == extractReply

ExtractSpec == ExtractInit /\ [][ExtractNext]_vars

(***************************************************************************)
(* fallbackOptimize applied to a state.                                    *)
(***************************************************************************)
RunFallback ==
  /\ pc = "call"
  /\ result' = Fulfilled(fallbackOptimize(state))
  /\ pc' = "done"
  /\ UNCHANGED <<state, reply, serviceVars, rendererVars>>

\* tasks of two dates, or tasks of one date with long tasks among them
FallbackInit ==
  /\ \E n \in 0..MaxTasks : \E long \in BOOLEAN :
       \E c \in [1..n -> IF long THEN LongTaskTimes \X {"2026-01-01"} \X {0, 1}
                                ELSE TaskTimes \X Dates \X {0, 1}] :
         state = PlannerState(TaskList(n, c))
  /\ pc = "call"
  /\ reply = JNull
  /\ result = JNull
  /\ ServiceIdle
  /\ Mounted

FallbackNext == RunFallback

FallbackSpec == FallbackInit /\ [][FallbackNext]_vars

\* the times of the tasks the placement is studied on: those of LongTaskTimes
\* and a task without duration at 07:30
PlacementTimes == LongTaskTimes \cup {<<T0730, T0730>>}

\* tasks of one date, fixed or flexible
PlacementInit ==
  /\ \E n \in 0..MaxTasks :
       \E c \in [1..n -> PlacementTimes \X {"2026-01-01"} \X {0, 1}] :
         state = PlannerState(TaskList(n, c))
  /\ pc = "call"
  /\ reply = JNull
  /\ result = JNull
  /\ ServiceIdle
  /\ Mounted

PlacementNext == RunFallback

PlacementSpec == PlacementInit /\ [][PlacementNext]_vars

(***************************************************************************)
(* The renderer: constants and helpers of src/preload/index.ts.            *)
(***************************************************************************)
TIMELINE_START == 6

TIMELINE_END == 23

\* 2.2 pixels per minute, as the fraction 11/5
DRAG_PX_PER_MIN == [num |-> 11, den |-> 5]

Min(a, b) == IF a <= b THEN a ELSE b

Max(a, b) == IF a >= b THEN a ELSE b

Abs(a) == IF a >= 0 THEN a ELSE 0 - a

timeToMins(t) ==
  LET parts == split(t, ":")
      h == Number(parts[1])
      m == Number(parts[2])
  IN  h * 60 + m

\* mutant: the hour and the minute are not padded
minsToTimeUnpadded(m) ==
  LET h == m \div 60
      min == m % 60
  IN  String(h) \o <<":">> \o String(min)

minsToTime(m) ==
  LET h == m \div 60
      min == m % 60
  IN  padStart(String(h), 2, "0") \o <<":">> \o padStart(String(min), 2, "0")

\* Math.round(num / den) * step for num >= 0: halves round up
roundTo(num, den, step) == ((2 * num + den * step) \div (2 * den * step)) * step

\* s.tasks.map: the numeric flags of the database become booleans
normalizeTask(t) == [t EXCEPT !.fixed = (t.fixed # 0), !.done = (t.done # 0)]

normalizeState(s) ==
  [tags |-> s.tags, tasks |-> [i \in 1..Len(s.tasks) |-> normalizeTask(s.tasks[i])]]

toDbState(tgs, tsks) ==
  [tags |-> tgs,
   tasks |-> [i \in 1..Len(tsks) |->
               [tsks[i] EXCEPT !.fixed = (IF tsks[i].fixed THEN 1 ELSE 0),
                               !.done  = (IF tsks[i].done THEN 1 ELSE 0)]]]

RECURSIVE removeId(_, _)
\* prev.filter((t) => t.id !== id)
removeId(list, id) ==
  IF list = <<>> THEN <<>>
  ELSE IF list[1].id = id THEN removeId(Tail(list), id)
       ELSE <<list[1]>> \o removeId(Tail(list), id)

\* prev.map((t) => (t.id === task.id ? task : t))
replaceId(list, task) ==
  [i \in 1..Len(list) |-> IF list[i].id = task.id THEN task ELSE list[i]]

\* mutant: every task of the list gets the given times
retimeAll(list, id, startTime, endTime) ==
  [i \in 1..Len(list) |->
     [list[i] EXCEPT !.startTime = startTime, !.endTime = endTime]]

\* prev.map: the task of the given id gets the given times
retime(list, id, startTime, endTime) ==
  [i \in 1..Len(list) |->
     IF list[i].id = id
     THEN [list[i] EXCEPT !.startTime = startTime, !.endTime = endTime]
     ELSE list[i]]

Ids(list) == { list[i].id : i \in 1..Len(list) }

CatchSummary == "Could not reach Ollama. Showing a basic local optimization."

(***************************************************************************)
(* The renderer: computeColumns, the lanes of the task blocks of a day.    *)
(***************************************************************************)
\* Math.max(...group.map((t) => timeToMins(t.endTime))), the group not empty
groupEnd(group) ==
  LET ends == { timeToMins(group[i].endTime) : i \in 1..Len(group) }
  IN  CHOOSE m \in ends : \A e \in ends : e <= m

\* a loop body that lets a task join a group it starts at the end of
joinGroupTouching(groups, task) ==
  LET hits == { g \in 1..Len(groups) : timeToMins(task.startTime) <= groupEnd(groups[g]) }
  IN  IF hits = {} THEN Append(groups, <<task>>)
      ELSE LET g == CHOOSE h \in hits : \A k \in hits : h <= k
           IN  [groups EXCEPT ![g] = Append(@, task)]

\* the body of the loop over sorted: the task joins the first group it starts
\* before the end of, or opens a group
joinGroup(groups, task) ==
  LET hits == { g \in 1..Len(groups) : timeToMins(task.startTime) < groupEnd(groups[g]) }
  IN  IF hits = {} THEN Append(groups, <<task>>)
      ELSE LET g == CHOOSE h \in hits : \A k \in hits : h <= k
           IN  [groups EXCEPT ![g] = Append(@, task)]

RECURSIVE buildGroups(_, _, _)
\* for (const task of sorted), from index i on
buildGroups(sorted, i, groups) ==
  IF i > Len(sorted) THEN groups
  ELSE buildGroups(sorted, i + 1, joinGroup(groups, sorted[i]))

\* mutant: a task goes into the first column, whatever that column holds
joinColumnFirst(cols, task) ==
  IF cols = <<>> THEN <<<<task>>>> ELSE [cols EXCEPT ![1] = Append(@, task)]

\* a loop body that takes the last of the columns whose last task has ended
joinColumnLast(cols, task) ==
  LET hits == { c \in 1..Len(cols) :
                  timeToMins(task.startTime) >= timeToMins(cols[c][Len(cols[c])].endTime) }
  IN  IF hits = {} THEN Append(cols, <<task>>)
      ELSE LET c == CHOOSE h \in hits : \A k \in hits : k <= h
           IN  [cols EXCEPT ![c] = Append(@, task)]

\* mutant: a column whose last task ends when the task starts is not taken
joinColumnStrict(cols, task) ==
  LET hits == { c \in 1..Len(cols) :
                  timeToMins(task.startTime) > timeToMins(cols[c][Len(cols[c])].endTime) }
  IN  IF hits = {} THEN Append(cols, <<task>>)
      ELSE LET c == CHOOSE h \in hits : \A k \in hits : h <= k
           IN  [cols EXCEPT ![c] = Append(@, task)]

\* the body of the loop over a group: the task goes into the first column whose
\* last task has ended, or opens a column
joinColumn(cols, task) ==
  LET hits == { c \in 1..Len(cols) :
                  timeToMins(task.startTime) >= timeToMins(cols[c][Len(cols[c])].endTime) }
  IN  IF hits = {} THEN Append(cols, <<task>>)
      ELSE LET c == CHOOSE h \in hits : \A k \in hits : h <= k
           IN  [cols EXCEPT ![c] = Append(@, task)]

RECURSIVE assignColumns(_, _, _)
\* for (const task of group), from index i on
assignColumns(group, i, cols) ==
  IF i > Len(group) THEN cols
  ELSE assignColumns(group, i + 1, joinColumn(cols, group[i]))

RECURSIVE flatten(_)
\* the concatenation of a sequence of sequences
flatten(seqs) == IF seqs = <<>> THEN <<>> ELSE seqs[1] \o flatten(Tail(seqs))

\* mutant: totalCols is the size of the task's column, not the number of columns
columnEntriesColumnSize(cols) ==
  flatten([c \in 1..Len(cols) |->
            [k \in 1..Len(cols[c]) |->
              [id |-> cols[c][k].id, col |-> c - 1, totalCols |-> Len(cols[c])]]])

\* cols.forEach: the result.set calls of one group, in their order
columnEntries(cols) ==
  flatten([c \in 1..Len(cols) |->
            [k \in 1..Len(cols[c]) |->
              [id |-> cols[c][k].id, col |-> c - 1, totalCols |-> Len(cols)]]])

\* the overlap groups of a task list
groupsOf(list) == buildGroups(sortByStartTime(list), 1, <<>>)

\* the result.set calls of all groups, in their order
resultEntries(groups) ==
  flatten([g \in 1..Len(groups) |-> columnEntries(assignColumns(groups[g], 1, <<>>))])

\* the last result.set of an id: a later set of an id replaces an earlier
lastSet(entries, id) ==
  CHOOSE e \in 1..Len(entries) :
    /\ entries[e].id = id
    /\ \A f \in (e + 1)..Len(entries) : entries[f].id # id

\* the Map the result.set calls leave: taskId -> {col, totalCols}
resultMap(entries) ==
  [id \in { entries[e].id : e \in 1..Len(entries) } |->
     LET last == entries[lastSet(entries, id)]
     IN  [col |-> last.col, totalCols |-> last.totalCols]]

computeColumns(list) == resultMap(resultEntries(groupsOf(list)))

\* filteredTasks: the tasks of the tag the sidebar filters by, or all tasks
filteredTasks(list, filter) ==
  IF filter # "null" THEN SelectSeq(list, LAMBDA t : t.tagId = filter) ELSE list

\* the tasks of the day view
dayTimelineTasks(list, date, filter) ==
  SelectSeq(filteredTasks(list, filter), LAMBDA t : t.taskDate = date)

\* the render that follows a handler: useMemo recomputes the columns when the
\* task list, the selected date or the tag filter has changed, and keeps them
\* otherwise
Render ==
  columns' = IF tasks' = tasks /\ selectedDate' = selectedDate /\ tagFilter' = tagFilter
             THEN columns
             ELSE computeColumns(dayTimelineTasks(tasks', selectedDate', tagFilter'))

(***************************************************************************)
(* The renderer: what the user and the database can supply.                *)
(***************************************************************************)
\* stored tasks at start-up
MaxSeeded == 2

\* new tasks, new tags, drags and optimizations the user starts
MaxGestures == 2

\* the times and the date of the stored tasks, by position
SeedTimes == <<<<T0700, T0800>>, <<T0730, T0830>>, <<T0900, T0915>>>>

SeedDates == <<"2026-01-01", "2026-01-01", "2026-01-02">>

\* the times the user types into the edit modal
EditTimes == {<<T1000, T1100>>}

\* clientY of the mouse: where it is pressed, where it moves to
PressY == 100

MoveYs == {PressY + 2, PressY + 66}

\* the record the history variable holds after a step of the proposal protocol
Ran(op) == [op |-> op, tasks |-> tasks, optimization |-> optimization]

\* no modal overlay and no drag gesture is in the way of a click on the page
PageFree == editState = JNull /\ optimization = JNull /\ gesture = JNull

(***************************************************************************)
(* The renderer: start-up and the task handlers.                           *)
(***************************************************************************)
\* window.planner.getState() resolves: the stored state is normalized
LoadState ==
  /\ ~loaded
  /\ \E n \in 0..MaxSeeded : \E c \in [1..n -> {0, 1}] :
       LET stored == PlannerState([i \in 1..n |->
                       DbTask(IdPool[i], SeedTimes[i], SeedDates[i], c[i])])
           norm   == normalizeState(stored)
       IN  tags' = norm.tags /\ tasks' = norm.tasks
  /\ loaded' = TRUE
  /\ prev' = JNull
  /\ UNCHANGED <<optimizerVars, selectedDate, editState, optimization, optimizing,
                 captured, uuids, gestures, dragStateRef, gesture, pending,
                 tagFilter>>
  /\ Render

\* tasks of the day handed to computeColumns
MaxDayTasks == 4

\* their times: overlapping, touching, nested and equal intervals, an empty
\* interval and one that ends before it starts
DayTimes == {<<T0700, T0800>>, <<T0730, T0830>>, <<T0800, T0900>>, <<T0700, T0900>>,
             <<T0730, T0730>>, <<T0800, T0700>>}

\* window.planner.getState() resolves with the tasks of one day, in the order of
\* startTime they are stored in, and the day view is rendered
LoadDay ==
  /\ ~loaded
  /\ \E n \in 0..MaxDayTasks : \E c \in [1..n -> DayTimes] :
       /\ \A i \in 1..(n - 1) : localeCompare(c[i][1], c[i + 1][1]) <= 0
       /\ LET stored == PlannerState([i \in 1..n |->
                           DbTask(IdPool[i], c[i], selectedDate, 0)])
              norm   == normalizeState(stored)
          IN  tags' = norm.tags /\ tasks' = norm.tasks
  /\ loaded' = TRUE
  /\ prev' = JNull
  /\ UNCHANGED <<optimizerVars, selectedDate, editState, optimization, optimizing,
                 captured, uuids, gestures, dragStateRef, gesture, pending,
                 tagFilter>>
  /\ Render

ColumnsNext == LoadDay

\* the times of a block that is dragged: at the top of the timeline, near its
\* end (50 and 52 minutes long), without duration, and longer than the timeline
DragTimes == {<<T0600, T0630>>, <<T2200, T2250>>, <<T2200, T2252>>, <<T0730, T0730>>,
              <<T0600, T2330>>}

\* where the mouse moves to while a block is dragged: up, hardly, down
WideMoveYs == {PressY - 66, PressY + 2, PressY + 66}

\* where the mouse moves to within the 3 pixels of a click
NearMoveYs == {PressY - 3, PressY + 2}

\* window.planner.getState() resolves with a block to drag and, at most, one
\* other task of the day
LoadDrag ==
  /\ ~loaded
  /\ \E t \in DragTimes : \E n \in 1..2 :
       LET stored == PlannerState(SubSeq(<<DbTask(IdPool[1], t, selectedDate, 0),
                                          DbTask(IdPool[2], <<T0900, T0915>>, selectedDate, 0)>>,
                                        1, n))
           norm   == normalizeState(stored)
       IN  tags' = norm.tags /\ tasks' = norm.tasks
  /\ loaded' = TRUE
  /\ prev' = JNull
  /\ UNCHANGED <<optimizerVars, selectedDate, editState, optimization, optimizing,
                 captured, uuids, gestures, dragStateRef, gesture, pending,
                 tagFilter>>
  /\ Render

\* crypto.randomUUID(): an id no task has had
UuidPool == <<"uuid-1", "uuid-2", "uuid-3", "uuid-4", "uuid-5">>

randomUUID == UuidPool[uuids + 1]

\* "+ Add task" (openNewTask without a start time)
openNewTask ==
  /\ loaded /\ PageFree
  /\ gestures < MaxGestures
  /\ LET start   == T0900
         startM  == timeToMins(start)
         endTime == minsToTime(Min(startM + 45, TIMELINE_END * 60 - 5))
     IN  editState' =
           [isNew |-> TRUE,
            task  |-> [id |-> randomUUID, title |-> "", taskDate |-> selectedDate,
                       startTime |-> start, endTime |-> endTime,
                       tagId |-> IF tagFilter # "null" THEN tagFilter
                                 ELSE IF tags # <<>> THEN tags[1].id ELSE "null",
                       notes |-> "", fixed |-> FALSE, done |-> FALSE]]
  /\ uuids' = uuids + 1
  /\ gestures' = gestures + 1
  /\ prev' = JNull
  /\ UNCHANGED <<optimizerVars, loaded, tags, tagFilter, tasks, selectedDate, optimization,
                 optimizing, captured, dragStateRef, gesture, pending>>
  /\ Render

\* the drafts the edit modal can hand to onSave: the title is not empty
Drafts ==
  { [editState.task EXCEPT !.title = "title", !.startTime = times[1],
                           !.endTime = times[2], !.fixed = fixed] :
      times \in EditTimes \cup {<<editState.task.startTime, editState.task.endTime>>},
      fixed \in BOOLEAN }

\* "Create task" / "Save changes" in the edit modal
handleSaveTask ==
  /\ editState # JNull /\ optimization = JNull
  /\ \E task \in Drafts :
       tasks' = IF editState.isNew THEN Append(tasks, task) ELSE replaceId(tasks, task)
  /\ editState' = JNull
  /\ prev' = JNull
  /\ UNCHANGED <<optimizerVars, loaded, tags, tagFilter, selectedDate, optimization, optimizing,
                 captured, uuids, gestures, dragStateRef, gesture, pending>>
  /\ Render

\* "Delete task" in the edit modal of an existing task
handleDeleteTask ==
  /\ editState # JNull /\ optimization = JNull
  /\ ~editState.isNew
  /\ tasks' = removeId(tasks, editState.task.id)
  /\ editState' = JNull
  /\ prev' = JNull
  /\ UNCHANGED <<optimizerVars, loaded, tags, tagFilter, selectedDate, optimization, optimizing,
                 captured, uuids, gestures, dragStateRef, gesture, pending>>
  /\ Render

\* "Cancel", the close button or the overlay of the edit modal
onClose ==
  /\ editState # JNull /\ optimization = JNull
  /\ editState' = JNull
  /\ prev' = JNull
  /\ UNCHANGED <<optimizerVars, loaded, tags, tagFilter, tasks, selectedDate, optimization,
                 optimizing, captured, uuids, gestures, dragStateRef, gesture, pending>>
  /\ Render

(***************************************************************************)
(* The renderer: dragging a task block of the day view.                    *)
(***************************************************************************)
\* mutant: the duration is captured without its floor of 15 minutes
handleTaskMouseDownNoFloor ==
  /\ loaded /\ PageFree
  /\ gestures < MaxGestures
  /\ \E i \in 1..Len(tasks) :
       /\ tasks[i].taskDate = selectedDate
       /\ tagFilter = "null" \/ tasks[i].tagId = tagFilter
       /\ LET task          == tasks[i]
              originalStart == timeToMins(task.startTime)
              duration      == timeToMins(task.endTime) - originalStart
          IN  /\ dragStateRef' = [taskId |-> task.id, startClientY |-> PressY,
                                  originalStart |-> originalStart, duration |-> duration,
                                  moved |-> FALSE, currentStart |-> originalStart]
              /\ gesture' = [task |-> task, latestClientY |-> PressY,
                             frameRequested |-> FALSE, far |-> FALSE]
  /\ gestures' = gestures + 1
  /\ prev' = JNull
  /\ UNCHANGED <<optimizerVars, loaded, tags, tagFilter, tasks, selectedDate, editState,
                 optimization, optimizing, captured, uuids, pending>>
  /\ Render

handleTaskMouseDown ==
  /\ loaded /\ PageFree
  /\ gestures < MaxGestures
  /\ \E i \in 1..Len(tasks) :
       /\ tasks[i].taskDate = selectedDate
       /\ tagFilter = "null" \/ tasks[i].tagId = tagFilter
       /\ LET task          == tasks[i]
              originalStart == timeToMins(task.startTime)
              duration      == Max(15, timeToMins(task.endTime) - originalStart)
          IN  /\ dragStateRef' = [taskId |-> task.id, startClientY |-> PressY,
                                  originalStart |-> originalStart, duration |-> duration,
                                  moved |-> FALSE, currentStart |-> originalStart]
              /\ gesture' = [task |-> task, latestClientY |-> PressY,
                             frameRequested |-> FALSE, far |-> FALSE]
  /\ gestures' = gestures + 1
  /\ prev' = JNull
  /\ UNCHANGED <<optimizerVars, loaded, tags, tagFilter, tasks, selectedDate, editState,
                 optimization, optimizing, captured, uuids, pending>>
  /\ Render

\* the mouse moves to one of the positions ys
mouseMove(ys) ==
  /\ gesture # JNull
  /\ \E y \in ys :
       gesture' = [gesture EXCEPT !.latestClientY = y, !.frameRequested = TRUE,
                                  !.far = @ \/ Abs(y - PressY) > 3]
  /\ prev' = JNull
  /\ UNCHANGED <<optimizerVars, loaded, tags, tagFilter, tasks, selectedDate, editState,
                 optimization, optimizing, captured, uuids, gestures,
                 dragStateRef, pending>>
  /\ Render

onMouseMove == mouseMove(MoveYs)

onMouseMoveWide == mouseMove(WideMoveYs)

onMouseMoveNear == mouseMove(NearMoveYs)

\* the record the history variable holds after a frame moved the block
Framed(id, duration) == [op |-> "applyDragFrame", taskId |-> id, duration |-> duration]

\* the body of applyDragFrame after frameRequested = false, run by the closure
\* of a gesture: [task, latestClientY]
runFrame(closure) ==
  LET drag == dragStateRef
  IN  IF drag = JNull \/ drag.taskId # closure.task.id
      THEN UNCHANGED <<dragStateRef, tasks>>
      ELSE LET delta    == closure.latestClientY - drag.startClientY
               minStart == TIMELINE_START * 60
               maxStart == TIMELINE_END * 60 - drag.duration
               \* nextStart, in units of 1/num minutes
               raw      == DRAG_PX_PER_MIN.num * drag.originalStart
                             + DRAG_PX_PER_MIN.den * delta
               nextStart == Max(DRAG_PX_PER_MIN.num * minStart,
                                Min(DRAG_PX_PER_MIN.num * maxStart, raw))
               nextStartSmoothed == roundTo(nextStart, DRAG_PX_PER_MIN.num, 5)
               nextEnd  == nextStartSmoothed + drag.duration
           IN  /\ dragStateRef' = [drag EXCEPT
                                     !.moved = drag.moved \/ Abs(delta) > 3,
                                     !.currentStart = nextStartSmoothed]
               /\ tasks' = retime(tasks, drag.taskId, minsToTime(nextStartSmoothed),
                                  minsToTime(nextEnd))

\* the animation frame requested by onMouseMove, the gesture still going on
applyDragFrame ==
  /\ gesture # JNull /\ gesture.frameRequested
  /\ gesture' = [gesture EXCEPT !.frameRequested = FALSE]
  /\ runFrame(gesture)
  /\ prev' = IF dragStateRef = JNull \/ dragStateRef.taskId # gesture.task.id
             THEN JNull ELSE Framed(dragStateRef.taskId, dragStateRef.duration)
  /\ UNCHANGED <<optimizerVars, loaded, tags, tagFilter, selectedDate, editState, optimization,
                 optimizing, captured, uuids, gestures, pending>>
  /\ Render

\* the record the history variable holds after the frame of a released gesture
LateFrame(closure) ==
  [op |-> "lateFrame", task |-> closure.task, tasks |-> tasks, drag |-> dragStateRef]

\* the animation frame requested by onMouseMove runs after the button was
\* released: requestAnimationFrame is not cancelled by onMouseUp
applyLateFrame ==
  /\ pending # <<>>
  /\ pending' = Tail(pending)
  /\ runFrame(Head(pending))
  /\ prev' = LateFrame(Head(pending))
  /\ UNCHANGED <<optimizerVars, loaded, tags, tagFilter, selectedDate, editState, optimization,
                 optimizing, captured, uuids, gestures, gesture>>
  /\ Render

\* the record the history variable holds after a block that did not move was
\* released: the task as it was when the button was pressed
Clicked(task) == [op |-> "click", task |-> task]

\* the record the history variable holds after a moved block was dropped
Dropped(task, duration) ==
  [op |-> "onMouseUp", taskId |-> task.id, duration |-> duration, task |-> task]

\* mutant: the snapped start is committed without the clamp
onMouseUpNoClamp ==
  /\ gesture # JNull
  /\ LET drag == dragStateRef
     IN  IF drag # JNull /\ drag.moved
         THEN LET snappedStart == roundTo(drag.currentStart, 1, 15)
                  minStart     == TIMELINE_START * 60
                  maxStart     == TIMELINE_END * 60 - drag.duration
                  finalStart   == snappedStart
                  finalEnd     == finalStart + drag.duration
              IN  /\ tasks' = retime(tasks, gesture.task.id, minsToTime(finalStart),
                                     minsToTime(finalEnd))
                  /\ UNCHANGED editState
         ELSE /\ editState' = [task |-> gesture.task, isNew |-> FALSE]
              /\ UNCHANGED tasks
  /\ dragStateRef' = JNull
  /\ gesture' = JNull
  /\ pending' = IF gesture.frameRequested
                THEN Append(pending, [task |-> gesture.task,
                                      latestClientY |-> gesture.latestClientY])
                ELSE pending
  /\ prev' = IF dragStateRef # JNull /\ dragStateRef.moved
             THEN Dropped(gesture.task, dragStateRef.duration)
             ELSE Clicked(gesture.task)
  /\ UNCHANGED <<optimizerVars, loaded, tags, tagFilter, selectedDate, optimization, optimizing,
                 captured, uuids, gestures>>
  /\ Render

\* the button is released: a moved block is committed on the quarter hour, a
\* block that did not move opens its edit modal
onMouseUp ==
  /\ gesture # JNull
  /\ LET drag == dragStateRef
     IN  IF drag # JNull /\ drag.moved
         THEN LET snappedStart == roundTo(drag.currentStart, 1, 15)
                  minStart     == TIMELINE_START * 60
                  maxStart     == TIMELINE_END * 60 - drag.duration
                  finalStart   == Max(minStart, Min(maxStart, snappedStart))
                  finalEnd     == finalStart + drag.duration
              IN  /\ tasks' = retime(tasks, gesture.task.id, minsToTime(finalStart),
                                     minsToTime(finalEnd))
                  /\ UNCHANGED editState
         ELSE /\ editState' = [task |-> gesture.task, isNew |-> FALSE]
              /\ UNCHANGED tasks
  /\ dragStateRef' = JNull
  /\ gesture' = JNull
  /\ pending' = IF gesture.frameRequested
                THEN Append(pending, [task |-> gesture.task,
                                      latestClientY |-> gesture.latestClientY])
                ELSE pending
  /\ prev' = IF dragStateRef # JNull /\ dragStateRef.moved
             THEN Dropped(gesture.task, dragStateRef.duration)
             ELSE Clicked(gesture.task)
  /\ UNCHANGED <<optimizerVars, loaded, tags, tagFilter, selectedDate, optimization, optimizing,
                 captured, uuids, gestures>>
  /\ Render

\* the button is released when no animation frame of the gesture is waiting;
\* the releases that overtake a frame are those of DragSpec and ClickSpec
onMouseUpAfterFrame ==
  /\ gesture # JNull /\ ~gesture.frameRequested
  /\ onMouseUp

(***************************************************************************)
(* The renderer: propose, apply, discard.                                  *)
(***************************************************************************)
\* "Optimize day": the handler runs up to its await; the main process hands
\* the state to optimizePlanWithOllama (ipcMain.handle('planner:optimize'))
requestOptimization ==
  /\ loaded /\ PageFree
  /\ ~optimizing /\ Len(tasks) # 0
  /\ gestures < MaxGestures
  /\ optimizing' = TRUE
  /\ captured' = tasks
  /\ state' = toDbState(tags, tasks)
  /\ pc' = "await"
  /\ reply' = JNull
  /\ result' = JNull
  /\ gestures' = gestures + 1
  /\ prev' = Ran("requestOptimization")
  /\ UNCHANGED <<serviceVars, loaded, tags, tagFilter, tasks, selectedDate, editState,
                 optimization, uuids, dragStateRef, gesture, pending>>
  /\ Render

\* the provider answers with one update, for a task of the state or for no task
ProviderAdvises ==
  /\ pc = "await"
  /\ \E id \in Ids(state.tasks) \cup {GhostId} :
       Settle(Resolves(ShapedReply(<<Update(id, <<T1000, T1100>>)>>, FALSE)))

\* result.tasks.map: the numeric flags of the result become booleans
previewOf(res) ==
  [tasks |-> [i \in 1..Len(res.tasks) |-> normalizeTask(res.tasks[i])],
   summary |-> res.summary]

\* mutant: the catch stages the live list, not the list the handler closed over
resumeRequestOptimizationStagesLive ==
  /\ pc = "done"
  /\ optimizing
  /\ optimization' = IF result.settled = "fulfilled"
                     THEN previewOf(result.value)
                     ELSE [tasks |-> tasks, summary |-> CatchSummary]
  /\ optimizing' = FALSE
  /\ pc' = "idle"
  /\ prev' = Ran("resumeRequestOptimization")
  /\ UNCHANGED <<state, reply, result, serviceVars, loaded, tags, tagFilter, tasks, selectedDate,
                 editState, captured, uuids, gestures, dragStateRef, gesture, pending>>
  /\ Render

\* the await of requestOptimization settles: try, catch and finally
resumeRequestOptimization ==
  /\ pc = "done"
  /\ optimizing
  /\ optimization' = IF result.settled = "fulfilled"
                     THEN previewOf(result.value)
                     ELSE [tasks |-> captured, summary |-> CatchSummary]
  /\ optimizing' = FALSE
  /\ pc' = "idle"
  /\ prev' = Ran("resumeRequestOptimization")
  /\ UNCHANGED <<state, reply, result, serviceVars, loaded, tags, tagFilter, tasks, selectedDate,
                 editState, captured, uuids, gestures, dragStateRef, gesture, pending>>
  /\ Render

\* mutant: the proposal stays staged after it is applied
applyOptimizationKeepsProposal ==
  /\ optimization # JNull /\ gesture = JNull
  /\ tasks' = optimization.tasks
  /\ UNCHANGED optimization
  /\ prev' = Ran("applyOptimization")
  /\ UNCHANGED <<optimizerVars, loaded, tags, tagFilter, selectedDate, editState, optimizing,
                 captured, uuids, gestures, dragStateRef, gesture, pending>>
  /\ Render

\* "Apply schedule"
applyOptimization ==
  /\ optimization # JNull /\ gesture = JNull
  /\ tasks' = optimization.tasks
  /\ optimization' = JNull
  /\ prev' = Ran("applyOptimization")
  /\ UNCHANGED <<optimizerVars, loaded, tags, tagFilter, selectedDate, editState, optimizing,
                 captured, uuids, gestures, dragStateRef, gesture, pending>>
  /\ Render

\* "Discard", the close button or the overlay of the proposal modal
discardOptimization ==
  /\ optimization # JNull /\ gesture = JNull
  /\ optimization' = JNull
  /\ prev' = Ran("discardOptimization")
  /\ UNCHANGED <<optimizerVars, loaded, tags, tagFilter, tasks, selectedDate, editState,
                 optimizing, captured, uuids, gestures, dragStateRef, gesture, pending>>
  /\ Render

\* the Escape key: both modals are closed (with no modal open the handler
\* sets what is set already, a step that changes nothing)
onKeyEscape ==
  /\ editState # JNull \/ optimization # JNull
  /\ editState' = JNull
  /\ optimization' = JNull
  /\ prev' = Ran("onKeyEscape")
  /\ UNCHANGED <<optimizerVars, loaded, tags, tagFilter, tasks, selectedDate, optimizing,
                 captured, uuids, gestures, dragStateRef, gesture, pending>>
  /\ Render

Init ==
  /\ state = PlannerState(<<>>)
  /\ pc = "idle"
  /\ reply = JNull
  /\ result = JNull
  /\ ServiceIdle
  /\ Mounted

Next ==
  \/ LoadState
  \/ openNewTask
  \/ handleSaveTask
  \/ handleDeleteTask
  \/ onClose
  \/ handleTaskMouseDown
  \/ onMouseMove
  \/ applyDragFrame
  \/ onMouseUpAfterFrame
  \/ requestOptimization
  \/ ProviderRejects
  \/ ProviderAdvises
  \/ resumeRequestOptimization
  \/ applyOptimization
  \/ discardOptimization
  \/ onKeyEscape

Spec == Init /\ [][Next]_vars

ColumnsSpec == Init /\ [][ColumnsNext]_vars

(***************************************************************************)
(* The clock conversions of both processes applied to the minutes and the  *)
(* clock texts of one day.                                                 *)
(***************************************************************************)
DayMinutes == 0..(24 * 60 - 1)

\* the zero-padded texts 00:00 .. 23:59
ClockTexts ==
  { <<Digits[(h \div 10) + 1], Digits[(h % 10) + 1], ":",
      Digits[(m \div 10) + 1], Digits[(m % 10) + 1]>> : h \in 0..23, m \in 0..59 }

Conversion(kind, arg) == [kind |-> kind, arg |-> arg, out |-> JNull]

\* fromMins and minsToTime applied to a minute, and the texts parsed back
ConvertMinutes ==
  /\ clock # JNull /\ clock.kind = "minutes" /\ clock.out = JNull
  /\ clock' = [clock EXCEPT !.out =
                  [main         |-> fromMins(clock.arg),
                   renderer     |-> minsToTime(clock.arg),
                   mainBack     |-> toMins(fromMins(clock.arg)),
                   rendererBack |-> timeToMins(minsToTime(clock.arg))]]
  /\ UNCHANGED <<state, pc, reply, result, env, runtimeVars, call, sent, rendererVars>>

\* toMins and timeToMins applied to a clock text, and the minutes written back
ConvertText ==
  /\ clock # JNull /\ clock.kind = "text" /\ clock.out = JNull
  /\ clock' = [clock EXCEPT !.out =
                  [main         |-> toMins(clock.arg),
                   renderer     |-> timeToMins(clock.arg),
                   mainBack     |-> fromMins(toMins(clock.arg)),
                   rendererBack |-> minsToTime(timeToMins(clock.arg))]]
  /\ UNCHANGED <<state, pc, reply, result, env, runtimeVars, call, sent, rendererVars>>

ClockInit ==
  /\ state = PlannerState(<<>>)
  /\ pc = "idle"
  /\ reply = JNull
  /\ result = JNull
  /\ \/ \E m \in DayMinutes : clock = Conversion("minutes", m)
     \/ \E t \in ClockTexts : clock = Conversion("text", t)
  /\ env = DefaultEnv
  /\ call = JNull
  /\ sent = <<>>
  /\ RuntimeIdle
  /\ Mounted

ClockNext ==
  \/ ConvertMinutes
  \/ ConvertText

ClockSpec == ClockInit /\ [][ClockNext]_vars

(***************************************************************************)
(* callAvailableProvider (ollama.ts 95-108) under an environment.  The     *)
(* sources hold two ai-runtime modules: src/main/ai-runtime.ts and         *)
(* unnamed/part_002, which reads EMBEDDED_AI_ENABLED.                      *)
(***************************************************************************)
\* the advisor calls of one run
MaxCalls == 2

Builds == {"src/main/ai-runtime.ts", "unnamed/part_002"}

Envs == [enabled : BOOLEAN, dotenv : BOOLEAN, assets : BOOLEAN, build : Builds]

\* the constant EMBEDDED_ENABLED (part_002 line 14), evaluated when the module
\* is imported: main/index.ts (part_001) imports ./ollama and ./ai-runtime in
\* lines 5-6 and calls dotenv.config() in line 9, after the imported modules
\* have run, so a value of .env is not in process.env yet and the default
\* applies.  src/main/ai-runtime.ts has no such constant.
EMBEDDED_ENABLED(e) ==
  IF e.build = "unnamed/part_002" /\ ~e.dotenv THEN e.enabled ELSE TRUE

\* hasEmbeddedAssets (ai-runtime.ts 173-175; part_002 249-252)
hasEmbeddedAssets(e) ==
  IF e.build = "unnamed/part_002"
  THEN IF ~EMBEDDED_ENABLED(e) THEN FALSE ELSE e.assets
  ELSE e.assets

Sent(kind, to) == [kind |-> kind, to |-> to]

\* chatWithPlanner (line 224) or optimizePlanWithOllama (line 305) calls
\* callAvailableProvider: without embedded assets the call goes to callOllama,
\* with them it waits for initEmbeddedRuntime
callAvailableProvider ==
  /\ call = JNull
  /\ Len(sent) < MaxCalls
  /\ \E kind \in {"chat", "optimize"} :
       IF hasEmbeddedAssets(env)
       THEN call' = [kind |-> kind] /\ UNCHANGED sent
       ELSE call' = JNull /\ sent' = Append(sent, Sent(kind, "ollama"))
  /\ UNCHANGED <<state, pc, reply, result, clock, env, runtimeVars, rendererVars>>

\* initEmbeddedRuntime settles: with a reachable runtime the call goes to
\* chatWithEmbeddedRuntime; with an unreachable one, or when it throws, to
\* callOllama
initEmbeddedRuntimeSettles ==
  /\ call # JNull
  /\ \E outcome \in {"reachable", "unreachable", "throws"} :
       sent' = Append(sent, Sent(call.kind, IF outcome = "reachable" THEN "embedded"
                                            ELSE "ollama"))
  /\ call' = JNull
  /\ UNCHANGED <<state, pc, reply, result, clock, env, runtimeVars, rendererVars>>

ProviderInit ==
  /\ state = PlannerState(<<>>)
  /\ pc = "idle"
  /\ reply = JNull
  /\ result = JNull
  /\ clock = JNull
  /\ env \in Envs
  /\ call = JNull
  /\ sent = <<>>
  /\ RuntimeIdle
  /\ Mounted

ProviderNext ==
  \/ callAvailableProvider
  \/ initEmbeddedRuntimeSettles

ProviderSpec == ProviderInit /\ [][ProviderNext]_vars

\* the drag gesture alone
DragNext ==
  \/ LoadDrag
  \/ handleTaskMouseDown
  \/ onMouseMoveWide
  \/ applyDragFrame
  \/ applyLateFrame
  \/ onMouseUp
  \/ onClose

DragSpec == Init /\ [][DragNext]_vars

\* the gesture with a pointer that stays within 3 pixels of where it was pressed
ClickNext ==
  \/ LoadDrag
  \/ handleTaskMouseDown
  \/ onMouseMoveNear
  \/ applyDragFrame
  \/ applyLateFrame
  \/ onMouseUp
  \/ onClose

ClickSpec == Init /\ [][ClickNext]_vars

(***************************************************************************)
(* Properties of the optimizer call.                                       *)
(***************************************************************************)
Input == state.tasks

Output == result.value.tasks

Flexible(i) == Input[i].fixed = 0

\* the tasks of the output with the id of input task i
OutputOf(i) == { j \in 1..Len(Output) : Output[j].id = Input[i].id }

KeepsTimes(i) ==
  \E j \in OutputOf(i) : /\ Output[j].startTime = Input[i].startTime
                         /\ Output[j].endTime = Input[i].endTime

HasTimes(i, startTime, endTime) ==
  \E j \in OutputOf(i) : Output[j].startTime = startTime /\ Output[j].endTime = endTime

Duration(startTime, endTime) == toMins(endTime) - toMins(startTime)

\* what the reply parses to
ParsedReply == JSONparse(extractJson(reply.raw))

ReplyShaped(p) ==
  /\ reply.kind = "resolves"
  /\ p.ok
  /\ p.v.t = "obj"
  /\ Get(p.v, "tasks").t = "arr"
  /\ Get(p.v, "summary").t = "str"

Updates(p) == Get(p.v, "tasks").a

\* the first entry of the update list with the id of input task i, 0 if none
Match(p, i) ==
  IF \E k \in 1..Len(Updates(p)) : Get(Updates(p)[k], "id") = JStr(Input[i].id)
  THEN CHOOSE k \in 1..Len(Updates(p)) :
         /\ Get(Updates(p)[k], "id") = JStr(Input[i].id)
         /\ \A l \in 1..(k - 1) : Get(Updates(p)[l], "id") # JStr(Input[i].id)
  ELSE 0

\* the search for the update of a flexible task reads a null entry
ValidationThrows(p) ==
  \E i \in 1..Len(Input) : \E k \in 1..Len(Updates(p)) :
    /\ Flexible(i)
    /\ Updates(p)[k] = JNull
    /\ \A l \in 1..(k - 1) : Get(Updates(p)[l], "id") # JStr(Input[i].id)

AdvisorFailed(p) ==
  \/ reply.kind = "rejects"
  \/ ~ReplyShaped(p)
  \/ ValidationThrows(p)

AdvisorPath(p) == pc = "done" /\ reply # JNull /\ ~AdvisorFailed(p)

\* C1: fallbackOptimize gives every fixed task of the input exactly once in the
\* output, with the startTime and endTime it had in the input.
FallbackKeepsFixed ==
  pc = "done" =>
    \A i \in 1..Len(Input) :
      ~Flexible(i) => Cardinality(OutputOf(i)) = 1 /\ KeepsTimes(i)

\* a fallback run with a fixed task that moved a flexible task
FallbackKeepsFixedWitness ==
  /\ pc = "done"
  /\ reply = JNull
  /\ \E i \in 1..Len(Input) : ~Flexible(i)
  /\ \E i \in 1..Len(Input) : Flexible(i) /\ ~KeepsTimes(i)

\* C2: whatever the advisor answers, every fixed task of the input state has its
\* startTime and endTime in the result, on the advisor path and on the fallback path.
OptimizeKeepsFixed ==
  pc = "done" =>
    \A i \in 1..Len(Input) : ~Flexible(i) => KeepsTimes(i)

\* the advisor path, with a well-formed update naming a fixed task and other times
OptimizeKeepsFixedWitness ==
  LET p == ParsedReply IN
  /\ AdvisorPath(p)
  /\ \E i \in 1..Len(Input) :
       /\ ~Flexible(i)
       /\ Match(p, i) # 0
       /\ WellFormedTimes(Updates(p)[Match(p, i)])
       /\ Get(Updates(p)[Match(p, i)], "startTime").s # Input[i].startTime

\* C6: the call never rejects, and when the provider rejects, the reply does not
\* parse, the parsed value lacks a list tasks or a string summary, or validation
\* throws, the result is fallbackOptimize(state).
OptimizeFallsBack ==
  LET p == ParsedReply IN
  pc = "done" =>
    /\ result.settled = "fulfilled"
    /\ AdvisorFailed(p) => result.value = fallbackOptimize(state)

\* a reply whose update list holds a null entry, answered by a fallback that moved a task
OptimizeFallsBackWitness ==
  LET p == ParsedReply IN
  /\ pc = "done"
  /\ ReplyShaped(p)
  /\ ValidationThrows(p)
  /\ result.value.summary = FallbackSummary
  /\ \E i \in 1..Len(Input) : ~KeepsTimes(i)

\* C7 (as claimed): on the advisor path a flexible task whose matching update has
\* well-formed times of another duration keeps its original startTime and endTime.
DurationChangeRejected ==
  LET p == ParsedReply IN
  AdvisorPath(p) =>
    \A i \in 1..Len(Input) :
      ( /\ Flexible(i)
        /\ Match(p, i) # 0
        /\ WellFormedTimes(Updates(p)[Match(p, i)])
        /\ Duration(Get(Updates(p)[Match(p, i)], "startTime").s, Get(Updates(p)[Match(p, i)], "endTime").s)
             # Duration(Input[i].startTime, Input[i].endTime) )
      => KeepsTimes(i)

\* the matching update of task i is an object with a malformed time
MatchMalformed(p, i) ==
  Match(p, i) # 0 /\ ~WellFormedTimes(Updates(p)[Match(p, i)])

MatchWellFormed(p, i) ==
  Match(p, i) # 0 /\ WellFormedTimes(Updates(p)[Match(p, i)])

PartialCase(p, a, b) ==
  /\ a # b
  /\ Flexible(a) /\ Flexible(b)
  /\ MatchMalformed(p, a)
  /\ MatchWellFormed(p, b)

KnownUpdates(p) ==
  SelectSeq(Updates(p), LAMBDA u : \E i \in 1..Len(Input) : Get(u, "id") = JStr(Input[i].id))

\* C9: the result holds exactly one task for every id of the input state and no
\* other; no field but startTime/endTime differs from the input task; on the
\* advisor path a task without a matching update keeps its times and updates
\* naming unknown ids change nothing.
IdentityPreserved ==
  LET p == ParsedReply IN
  pc = "done" =>
    /\ Len(Output) = Len(Input)
    /\ \A i \in 1..Len(Input) : Cardinality(OutputOf(i)) = 1
    /\ \A i \in 1..Len(Input) : \A j \in OutputOf(i) :
         [Output[j] EXCEPT !.startTime = Input[i].startTime,
                           !.endTime   = Input[i].endTime] = Input[i]
    /\ ~AdvisorFailed(p) =>
         /\ \A i \in 1..Len(Input) : Match(p, i) = 0 => KeepsTimes(i)
         /\ result.value =
              applyResponse(state,
                [p.v EXCEPT !.m = [@ EXCEPT !.tasks = JArr(KnownUpdates(p))]]).value

\* the advisor path with an update of an unknown id, an updated task and a task without update
IdentityPreservedWitness ==
  LET p == ParsedReply IN
  /\ AdvisorPath(p)
  /\ Len(KnownUpdates(p)) < Len(Updates(p))
  /\ \E i \in 1..Len(Input) : Flexible(i) /\ Match(p, i) # 0 /\ ~KeepsTimes(i)
  /\ \E i \in 1..Len(Input) : Flexible(i) /\ Match(p, i) = 0

\* the state restricted to the tasks of one date
OnlyDate(st, d) ==
  [st EXCEPT !.tasks = SelectSeq(st.tasks, LAMBDA t : t.taskDate = d)]

\* C10 (as claimed): for the day being scheduled, whichever it is, the tasks of
\* other dates keep their times and the tasks of that day get the times they
\* would get if the state held that day's tasks alone.
DayConfined ==
  pc = "done" =>
    \E d \in Dates :
      \A i \in 1..Len(Input) :
        IF Input[i].taskDate # d
        THEN KeepsTimes(i)
        ELSE \E t \in { fallbackOptimize(OnlyDate(state, d)).tasks[k] :
                          k \in 1..Len(fallbackOptimize(OnlyDate(state, d)).tasks) } :
               t.id = Input[i].id /\ HasTimes(i, t.startTime, t.endTime)

(***************************************************************************)
(* Properties of the proposal protocol of the renderer.                    *)
(***************************************************************************)
\* the last step was the given step of the proposal protocol
Last(op) == prev # JNull /\ prev.op = op

Applied == Last("applyOptimization")

\* C3: a request, the arrival of its result, a discard and Escape leave the
\* live list as they found it; apply makes the proposal's tasks the live list
\* and leaves no proposal staged.
ProposalProtocol ==
  /\ \A op \in {"requestOptimization", "resumeRequestOptimization",
                "discardOptimization", "onKeyEscape"} :
       Last(op) => tasks = prev.tasks
  /\ Applied => tasks = prev.optimization.tasks /\ optimization = JNull

\* a proposal that differs from the live list has just been applied
ProposalProtocolWitness ==
  /\ Applied
  /\ tasks # prev.tasks
  /\ optimization = JNull

\* C4: after apply, every task that was fixed in the live list before the
\* apply has the times it had before the apply.
ApplyKeepsFixedTimes ==
  Applied =>
    \A i \in 1..Len(prev.tasks) : \A j \in 1..Len(tasks) :
      (prev.tasks[i].fixed /\ tasks[j].id = prev.tasks[i].id)
        => /\ tasks[j].startTime = prev.tasks[i].startTime
           /\ tasks[j].endTime = prev.tasks[i].endTime

\* C5: the ids of the live list after apply are the ids before the apply.
ApplyKeepsIds == Applied => Ids(tasks) = Ids(prev.tasks)

(***************************************************************************)
(* Properties of the placement of fallbackOptimize.                        *)
(***************************************************************************)
\* the interval of a task, in minutes
Interval(task) == [start |-> toMins(task.startTime), end |-> toMins(task.endTime)]

\* two half-open intervals [start, end) have a minute in common
Intersects(a, b) == Max(a.start, b.start) < Min(a.end, b.end)

InputInterval(i) == Interval(Input[i])

\* the interval of input task i in the output
OutputInterval(i) == Interval(Output[CHOOSE j \in OutputOf(i) : TRUE])

PositiveDuration(i) == InputInterval(i).end - InputInterval(i).start > 0

\* sortedFlex and the occupied windows of the fixed tasks (lines 229-239)
SortedFlex == sortByStartTime(filterFixed(Input, FALSE))

FixedWindows ==
  LET fixed == filterFixed(Input, TRUE)
  IN  [i \in 1..Len(fixed) |-> Interval(fixed[i])]

RECURSIVE SlottedFrom(_, _, _, _)
\* the ids of the tasks of sortedFlex, from the k-th on, that the scan finds a
\* slot for when it starts at cursor with the windows occupied
SlottedFrom(sortedFlex, k, occupied, cursor) ==
  IF k > Len(sortedFlex) THEN {}
  ELSE LET interval  == Interval(sortedFlex[k])
           duration  == interval.end - interval.start
           slotStart == IF duration > 0 THEN findSlot(cursor, 0, duration, occupied)
                        ELSE NotFound
       IN  IF slotStart # NotFound
           THEN {sortedFlex[k].id} \cup
                  SlottedFrom(sortedFlex, k + 1,
                              Append(occupied, [start |-> slotStart,
                                                end   |-> slotStart + duration]),
                              slotStart + duration)
           ELSE SlottedFrom(sortedFlex, k + 1, occupied, cursor)

\* the ids of the placed tasks: the flexible tasks the scan found a slot for
SlottedIds == SlottedFrom(SortedFlex, 1, FixedWindows, 7 * 60)

\* the intervals of the input tasks in the output
OutputIntervals == [i \in 1..Len(Input) |-> OutputInterval(i)]

\* C11: in the output of fallbackOptimize the interval of a placed flexible
\* task intersects neither the interval of a fixed task nor the interval of
\* another placed flexible task.
PlacedDisjoint ==
  pc = "done" =>
    LET slotted == SlottedIds
        out     == OutputIntervals
    IN  \A i, j \in 1..Len(Input) :
          ( /\ i # j
            /\ Input[i].id \in slotted
            /\ (~Flexible(j) \/ Input[j].id \in slotted) )
          => ~Intersects(out[i], out[j])

\* two flexible tasks that overlapped a fixed task and each other were placed
PlacedDisjointWitness ==
  /\ pc = "done"
  /\ \E f, i, j \in 1..Len(Input) :
       /\ ~Flexible(f) /\ PositiveDuration(f)
       /\ i # j /\ Input[i].id \in SlottedIds /\ Input[j].id \in SlottedIds
       /\ Intersects(InputInterval(i), InputInterval(f))
       /\ Intersects(InputInterval(i), InputInterval(j))
       /\ OutputInterval(i) # InputInterval(i)

\* C12 (as claimed): in the output of fallbackOptimize no flexible task of
\* positive duration has an interval that intersects the interval of another
\* task, whether the scan found a slot for it or not.
FallbackConflictFree ==
  pc = "done" =>
    \A i, j \in 1..Len(Input) :
      (i # j /\ Flexible(i) /\ PositiveDuration(i))
        => ~Intersects(OutputInterval(i), OutputInterval(j))

\* C13: a flexible task of positive duration that was placed is as long in the
\* output as it was in the input.
PlacedKeepsDuration ==
  pc = "done" =>
    LET slotted == SlottedIds
        out     == OutputIntervals
    IN  \A i \in 1..Len(Input) :
          Input[i].id \in slotted =>
            out[i].end - out[i].start = InputInterval(i).end - InputInterval(i).start

\* a quarter-hour task was placed at another time, off the full hour
PlacedKeepsDurationWitness ==
  /\ pc = "done"
  /\ \E i \in 1..Len(Input) :
       /\ Input[i].id \in SlottedIds
       /\ InputInterval(i).end - InputInterval(i).start = 15
       /\ OutputInterval(i).start # InputInterval(i).start
       /\ OutputInterval(i).start % 60 # 0

(***************************************************************************)
(* Properties of the results built from an advisor response.               *)
(***************************************************************************)
\* C14 (as claimed): in a result built from an advisor response, a flexible
\* task that got its times from an update does not overlap a fixed task or
\* another task of its day (that it did not overlap in the input state).
AdvisedDisjoint ==
  LET p == ParsedReply IN
  AdvisorPath(p) =>
    \A i, j \in 1..Len(Input) :
      ( /\ i # j
        /\ Flexible(i) /\ MatchWellFormed(p, i)
        /\ Input[j].taskDate = Input[i].taskDate
        /\ ~Intersects(InputInterval(i), InputInterval(j)) )
      => ~Intersects(OutputInterval(i), OutputInterval(j))

\* a text HH:MM that names a time of day, 00:00 to 23:59
TimeOfDay(t) ==
  /\ TimeRe(t)
  /\ Number(split(t, ":")[1]) <= 23
  /\ Number(split(t, ":")[2]) <= 59

\* C15 (as claimed): the input times being times of day, every startTime and
\* endTime of the result is a time of day.
ResultTimesOfDay ==
  pc = "done" =>
    ( (\A i \in 1..Len(Input) :
         TimeOfDay(Input[i].startTime) /\ TimeOfDay(Input[i].endTime))
      => \A j \in 1..Len(Output) :
           TimeOfDay(Output[j].startTime) /\ TimeOfDay(Output[j].endTime) )

(***************************************************************************)
(* Properties of computeColumns.                                           *)
(***************************************************************************)
\* the tasks the columns were computed for
DayTasks == dayTimelineTasks(tasks, selectedDate, tagFilter)

DayInterval(i) ==
  [start |-> timeToMins(DayTasks[i].startTime), end |-> timeToMins(DayTasks[i].endTime)]

\* the overlap test of the code: each interval starts before the other ends
Overlaps(a, b) == a.start < b.end /\ b.start < a.end

\* every task of the day ends after it starts
PositiveDurations == \A i \in 1..Len(DayTasks) : DayInterval(i).start < DayInterval(i).end

\* the group of each task of the day: its index in the list of groups
GroupIndex ==
  LET groups == groupsOf(DayTasks)
  IN  [i \in 1..Len(DayTasks) |->
         CHOOSE g \in 1..Len(groups) :
           \E k \in 1..Len(groups[g]) : groups[g][k].id = DayTasks[i].id]

Lane(i) == columns[DayTasks[i].id].col

LaneCount(i) == columns[DayTasks[i].id].totalCols

\* C16: two tasks of one group in the same lane do not overlap, and two tasks
\* that overlap have different lanes.
LanesDisjoint ==
  loaded =>
    LET group == GroupIndex
    IN  \A i, j \in 1..Len(DayTasks) :
          i # j =>
            /\ (group[i] = group[j] /\ Lane(i) = Lane(j))
                 => ~Overlaps(DayInterval(i), DayInterval(j))
            /\ Overlaps(DayInterval(i), DayInterval(j)) => Lane(i) # Lane(j)

\* a group of three tasks: two that touch share a lane, the third overlaps both
LanesDisjointWitness ==
  /\ loaded
  /\ Len(DayTasks) = 3
  /\ \E i, j, k \in 1..3 :
       /\ i # j
       /\ GroupIndex[i] = GroupIndex[j] /\ Lane(i) = Lane(j)
       /\ DayInterval(i).end = DayInterval(j).start
       /\ Overlaps(DayInterval(k), DayInterval(i))
       /\ Overlaps(DayInterval(k), DayInterval(j))
       /\ Lane(k) # Lane(i)

\* C17 (as claimed): two tasks with the same startTime and the same endTime are
\* in one group of two lanes and have the lanes 0 and 1.
TwinsSplit ==
  ( /\ loaded
    /\ Len(DayTasks) = 2
    /\ DayInterval(1) = DayInterval(2) )
  => /\ GroupIndex[1] = GroupIndex[2]
     /\ LaneCount(1) = 2 /\ LaneCount(2) = 2
     /\ {Lane(1), Lane(2)} = {0, 1}

RECURSIVE Chain(_, _)
\* the tasks of the day linked to a task of S by a chain of overlapping tasks
Chain(S, n) ==
  IF n = 0 THEN S
  ELSE Chain(S \cup { j \in 1..Len(DayTasks) :
                        \E i \in S : Overlaps(DayInterval(i), DayInterval(j)) }, n - 1)

\* C18 (as claimed): two tasks are in the same group exactly when a chain of
\* pairwise overlapping tasks links them; touching tasks do not overlap.
GroupsAreComponents ==
  loaded =>
    LET group == GroupIndex
    IN  \A i, j \in 1..Len(DayTasks) :
          i # j => (group[i] = group[j] <=> j \in Chain({i}, Len(DayTasks)))

\* C19: the map has exactly one entry per task of the list; every lane is within
\* its lane count; the tasks of a group report one lane count and use every lane
\* below it; no task gives the empty map and one task gives lane 0 of 1.
ColumnsTotal ==
  loaded =>
    LET group == GroupIndex
        n     == Len(DayTasks)
    IN  /\ DOMAIN columns = { DayTasks[i].id : i \in 1..n }
        /\ \A i \in 1..n :
             /\ 0 <= Lane(i) /\ Lane(i) < LaneCount(i)
             /\ \A j \in 1..n : group[i] = group[j] => LaneCount(i) = LaneCount(j)
             /\ \A l \in 0..(LaneCount(i) - 1) :
                  \E j \in 1..n : group[j] = group[i] /\ Lane(j) = l
        /\ n = 0 => columns = [id \in {} |-> JNull]
        /\ n = 1 => Lane(1) = 0 /\ LaneCount(1) = 1

\* two groups of the same day with different lane counts
ColumnsTotalWitness ==
  /\ loaded
  /\ \E i, j, k \in 1..Len(DayTasks) :
       /\ GroupIndex[i] = GroupIndex[j] /\ i # j
       /\ GroupIndex[k] # GroupIndex[i]
       /\ LaneCount(i) = 2 /\ LaneCount(k) = 1
       /\ Lane(i) = 0 /\ Lane(j) = 1

(***************************************************************************)
(* Properties of the drag gesture.                                         *)
(***************************************************************************)
\* a moved block has just been dropped: prev holds the task as it was when the
\* button was pressed and the duration the gesture captured
JustDropped == Last("onMouseUp")

\* the interval the drop committed: that of the dropped task in the live list
Committed ==
  LET i == CHOOSE k \in 1..Len(tasks) : tasks[k].id = prev.taskId
  IN  [start |-> timeToMins(tasks[i].startTime), end |-> timeToMins(tasks[i].endTime)]

\* the committed interval lies in the timeline and has the captured duration
InTimeline(c) ==
  /\ c.start >= TIMELINE_START * 60
  /\ c.end <= TIMELINE_END * 60
  /\ c.end - c.start = prev.duration

\* C20 (as claimed): whatever the task and the path of the pointer, a dropped
\* block starts at 06:00 or later, ends at 23:00 or earlier and has the duration
\* captured at pointer-down.
DragCommitInBounds ==
  (JustDropped /\ prev.taskId \in Ids(tasks)) => InTimeline(Committed)

\* C20 (amended): the same for a block whose captured duration is at most the
\* length of the timeline, 06:00 to 23:00; the captured duration is kept always.
DragCommitInBoundsIfFits ==
  (JustDropped /\ prev.taskId \in Ids(tasks)) =>
    LET c == Committed
    IN  /\ c.end - c.start = prev.duration
        /\ c.start >= TIMELINE_START * 60
        /\ prev.duration <= (TIMELINE_END - TIMELINE_START) * 60 => InTimeline(c)

\* a block of 50 minutes dragged down against the end of the timeline is
\* dropped at 22:10-23:00
DragCommitInBoundsWitness ==
  /\ JustDropped /\ prev.taskId \in Ids(tasks)
  /\ prev.duration = 50
  /\ Committed = [start |-> 22 * 60 + 10, end |-> TIMELINE_END * 60]

\* a frame has just moved the dragged block
JustFramed == Last("applyDragFrame")

\* the interval the frame stored for the dragged block
Previewed ==
  LET i == CHOOSE k \in 1..Len(tasks) : tasks[k].id = prev.taskId
  IN  [start |-> timeToMins(tasks[i].startTime), end |-> timeToMins(tasks[i].endTime)]

\* C21 (as claimed): after every frame of a drag the stored interval of the
\* dragged block starts at 06:00 or later, on a multiple of 5 minutes, and ends
\* at 23:00 or earlier.
PreviewInBounds ==
  (JustFramed /\ prev.taskId \in Ids(tasks)) =>
    LET c == Previewed
    IN  /\ c.start >= TIMELINE_START * 60
        /\ c.end <= TIMELINE_END * 60
        /\ c.start % 5 = 0

\* a block that did not move has just been released
JustClicked == Last("click")

\* C22 (as claimed): a gesture whose pointer stays within 3 pixels is never
\* committed as a drag; its release opens the task for edit and the stored
\* startTime and endTime of the task are those it had when the button was pressed.
ClickKeepsTimes ==
  /\ ~JustDropped
  /\ JustClicked =>
       /\ editState = [task |-> prev.task, isNew |-> FALSE]
       /\ \A i \in 1..Len(tasks) :
            tasks[i].id = prev.task.id =>
              /\ tasks[i].startTime = prev.task.startTime
              /\ tasks[i].endTime = prev.task.endTime

\* C23 (as claimed): a dropped block starts on a multiple of 15 minutes and ends
\* at that start plus the captured duration.
DropOnQuarter ==
  (JustDropped /\ prev.taskId \in Ids(tasks)) =>
    LET c == Committed
    IN  /\ c.start % 15 = 0
        /\ c.end = c.start + prev.duration

\* the duration pointer-down captures for a task
Captured(task) == Max(15, timeToMins(task.endTime) - timeToMins(task.startTime))

\* C24: while a gesture lasts, the drag state holds the start minute of the
\* pressed task and the duration max(15, end - start); every frame and the drop
\* store an interval of exactly that duration.
DurationCaptured ==
  /\ (gesture # JNull /\ dragStateRef # JNull) =>
       /\ dragStateRef.originalStart = timeToMins(gesture.task.startTime)
       /\ dragStateRef.duration = Captured(gesture.task)
  /\ (JustFramed /\ prev.taskId \in Ids(tasks)) =>
       Previewed.end - Previewed.start = Captured(gesture.task)
  /\ (JustDropped /\ prev.taskId \in Ids(tasks)) =>
       Committed.end - Committed.start = Captured(prev.task)

\* a block without duration was dragged and dropped with 15 minutes
DurationCapturedWitness ==
  /\ JustDropped /\ prev.taskId \in Ids(tasks)
  /\ prev.task.startTime = prev.task.endTime
  /\ Committed.end - Committed.start = 15
  /\ Committed.start # timeToMins(prev.task.startTime)

(***************************************************************************)
(* Properties of the placement fallbackOptimize makes.                     *)
(***************************************************************************)
\* the index in the input of the task with this id
InputIndex(id) == CHOOSE i \in 1..Len(Input) : Input[i].id = id

\* the indices in sortedFlex, before the k-th, of the tasks that were placed
PlacedBefore(sortedFlex, k, slotted) ==
  { l \in 1..(k - 1) : sortedFlex[l].id \in slotted }

\* the cursor when the k-th task of sortedFlex is placed: 07:00, or the end of
\* the most recently placed task
CursorAt(sortedFlex, k, slotted, out) ==
  LET before == PlacedBefore(sortedFlex, k, slotted)
  IN  IF before = {} THEN 7 * 60
      ELSE LET last == CHOOSE l \in before : \A m \in before : m <= l
           IN  out[InputIndex(sortedFlex[last].id)].end

\* the windows occupied when the k-th task of sortedFlex is placed: those of
\* the fixed tasks and those of the tasks placed before
OccupiedAt(sortedFlex, k, slotted, out) ==
  { FixedWindows[i] : i \in 1..Len(FixedWindows) } \cup
  { out[InputIndex(sortedFlex[l].id)] : l \in PlacedBefore(sortedFlex, k, slotted) }

\* the test of line 256: the slot [s, s + d) reaches into the window
Conflicts(s, d, window) == s < window.end /\ s + d > window.start

\* the slot [s, s + d) is accepted: it ends by 23:00 and meets no window,
\* by the test of line 256 or as half-open intervals
Accepted(s, d, occupied, asIntervals) ==
  /\ s + d <= 23 * 60
  /\ \A w \in occupied :
       IF asIntervals THEN ~Intersects([start |-> s, end |-> s + d], w)
       ELSE ~Conflicts(s, d, w)

\* every placed task starts at the first accepted slot of cursor + 15 k, k < 96
FirstFit(asIntervals) ==
  pc = "done" =>
    LET sortedFlex == SortedFlex
        slotted    == SlottedIds
        out        == OutputIntervals
    IN  \A k \in 1..Len(sortedFlex) :
          sortedFlex[k].id \in slotted =>
            LET c   == CursorAt(sortedFlex, k, slotted, out)
                occ == OccupiedAt(sortedFlex, k, slotted, out)
                d   == Interval(sortedFlex[k]).end - Interval(sortedFlex[k]).start
                o   == out[InputIndex(sortedFlex[k].id)]
            IN  /\ o.end = o.start + d
                /\ \E a \in 0..(24 * 4 - 1) :
                     /\ o.start = c + 15 * a
                     /\ Accepted(o.start, d, occ, asIntervals)
                     /\ \A b \in 0..(a - 1) : ~Accepted(c + 15 * b, d, occ, asIntervals)
                /\ 7 * 60 <= o.start
                /\ o.end <= 23 * 60

\* C26 (as claimed): a placed flexible task of duration d starts at the smallest
\* s of cursor + 15 k, k < 96, whose interval [s, s + d) intersects no occupied
\* window and ends by 23:00; the cursor is 07:00 or the end of the most recently
\* placed task; every placed task lies inside 07:00-23:00.
FirstFitIntervals == FirstFit(TRUE)

\* C26 (amended): the same with the test of the scan in place of the
\* intersection: a slot is refused when it starts before the end of a window
\* and ends after its start, which refuses a slot around a window without
\* duration.
FirstFitScan == FirstFit(FALSE)

\* the first task was placed past refused slots, around the task without
\* duration at 07:30, and the second at the cursor the first left
FirstFitScanWitness ==
  /\ pc = "done"
  /\ \E i \in 1..Len(Input) : ~Flexible(i) /\ InputInterval(i) = [start |-> 450, end |-> 450]
  /\ Len(SortedFlex) >= 2
  /\ SortedFlex[1].id \in SlottedIds /\ SortedFlex[2].id \in SlottedIds
  /\ OutputIntervals[InputIndex(SortedFlex[1].id)].start = 450
  /\ OutputIntervals[InputIndex(SortedFlex[2].id)].start =
       OutputIntervals[InputIndex(SortedFlex[1].id)].end

\* the occupied list, the cursor and the placed tasks after the first k rounds
\* of the loop over sortedFlex
LoopAfter(sortedFlex, k) ==
  placeFlexible(SubSeq(sortedFlex, 1, k), 1, FixedWindows, 7 * 60, <<>>)

\* round k of the loop passes its task through: the duration is not positive,
\* or none of the 96 candidate starts from the cursor is accepted
Passes(before, task) ==
  LET duration == Interval(task).end - Interval(task).start
      occupied == { before.occupied[i] : i \in 1..Len(before.occupied) }
  IN  \/ duration <= 0
      \/ \A a \in 0..(24 * 4 - 1) :
           ~Accepted(before.cursor + 15 * a, duration, occupied, FALSE)

PassedThrough(sortedFlex, k) == Passes(LoopAfter(sortedFlex, k - 1), sortedFlex[k])

\* C27: a flexible task with a non-positive duration, or one none of whose
\* candidate starts is accepted, is in the output with its own startTime and
\* endTime; its round adds no window to the occupied list and leaves the cursor
\* where it was; fallbackOptimize returns a plan and raises no error.
Passthrough ==
  pc = "done" =>
    /\ result.settled = "fulfilled"
    /\ LET sortedFlex == SortedFlex
       IN  \A k \in 1..Len(sortedFlex) :
             LET before == LoopAfter(sortedFlex, k - 1)
                 after  == LoopAfter(sortedFlex, k)
             IN  Passes(before, sortedFlex[k]) =>
                   /\ KeepsTimes(InputIndex(sortedFlex[k].id))
                   /\ after.occupied = before.occupied
                   /\ after.cursor = before.cursor

\* a task longer than the day and a task without duration were passed through,
\* and the task after them was placed at 07:00, where the cursor still was
PassthroughWitness ==
  /\ pc = "done"
  /\ Len(SortedFlex) = 3
  /\ Interval(SortedFlex[1]) = [start |-> 6 * 60, end |-> 23 * 60 + 30]
  /\ PassedThrough(SortedFlex, 1)
  /\ \E k \in 2..3 :
       /\ Interval(SortedFlex[k]).end = Interval(SortedFlex[k]).start
       /\ PassedThrough(SortedFlex, k)
       /\ KeepsTimes(InputIndex(SortedFlex[k].id))
  /\ \E k \in 2..3 :
       /\ ~PassedThrough(SortedFlex, k)
       /\ OutputIntervals[InputIndex(SortedFlex[k].id)].start = 7 * 60
  /\ KeepsTimes(InputIndex(SortedFlex[1].id))

(***************************************************************************)
(* Properties of extractJson.                                              *)
(***************************************************************************)
Braces(text, k) == { i \in 1..Len(text) : text[i].k = k }

\* the text from its first "{" to its last "}", when the one comes before the
\* other, and the whole text otherwise
OutermostSpan(text) ==
  LET opening == Braces(text, "{")
      closing == Braces(text, "}")
  IN  IF \E i \in opening : \E j \in closing : (\A o \in opening : i <= o) /\
                                               (\A c \in closing : c <= j) /\ i < j
      THEN LET i == CHOOSE o \in opening : \A x \in opening : o <= x
               j == CHOOSE c \in closing : \A x \in closing : x <= c
           IN  SubSeq(text, i, j)
      ELSE text

\* the reply 'Sure! {"summary":"ok","tasks":[]} thanks'
SureThanks == MadeReply(<<Word>>, Stringify(Response(JStr("ok"), JArr(<<>>))), <<Word>>)

\* the mechanism and the example of C28
OutermostExtracted ==
  pc = "done" =>
    /\ result.span = OutermostSpan(reply.raw)
    /\ reply = SureThanks => result.parsed.ok

\* C28 (as claimed): whenever the reply holds a JSON object with other text
\* around it, the extracted span is exactly that object; the span runs from the
\* first "{" to the last "}" when they come in that order and is the whole text
\* otherwise; the span of 'Sure! {"summary":"ok","tasks":[]} thanks' parses.
ObjectExtracted ==
  /\ OutermostExtracted
  /\ (pc = "done" /\ reply.object # <<>>) => result.span = reply.object

\* C28 (amended): the span is exactly the object when the text before it has no
\* "{" and the text after it no "}"; the rest as claimed.
ObjectExtractedFromProse ==
  /\ OutermostExtracted
  /\ ( /\ pc = "done" /\ reply.object # <<>>
       /\ Braces(reply.before, "{") = {}
       /\ Braces(reply.after, "}") = {} ) => result.span = reply.object

\* the object of 'Sure! {"summary":"ok","tasks":[]} thanks' was extracted and
\* parsed to a plan without updates
ObjectExtractedWitness ==
  /\ pc = "done"
  /\ reply = SureThanks
  /\ result.span = reply.object
  /\ result.parsed.ok
  /\ Get(result.parsed.v, "summary") = JStr("ok")
  /\ Get(result.parsed.v, "tasks") = JArr(<<>>)

(***************************************************************************)
(* Properties of the provider selection.                                   *)
(***************************************************************************)
AllToOllama == \A i \in 1..Len(sent) : sent[i].to = "ollama"

\* C29 (as claimed): when the embedded assets are missing, or
\* EMBEDDED_AI_ENABLED is false, every advisor call, chat or optimize, is sent
\* to Ollama and none to the embedded runtime.
OllamaOnly ==
  (~env.assets \/ ~env.enabled) => AllToOllama

\* the half of C29 about the files: without the embedded assets every advisor
\* call is sent to Ollama
OllamaWithoutAssets ==
  ~env.assets => (call = JNull /\ AllToOllama)

\* a chat and an optimize call were sent to Ollama for want of the assets
OllamaWithoutAssetsWitness ==
  /\ ~env.assets /\ env.enabled
  /\ Len(sent) = 2
  /\ {sent[1], sent[2]} = {Sent("chat", "ollama"), Sent("optimize", "ollama")}

(***************************************************************************)
(* Properties of the lanes within a group.                                 *)
(***************************************************************************)
\* the positions before p of the tasks of the group that were put in the lane
InLaneBefore(group, p, lane) ==
  { q \in 1..(p - 1) : columns[group[q].id].col = lane }

\* when the p-th task of the group is placed, the task placed last in the lane
\* ends at or before the start of the p-th
LaneFree(group, p, lane) ==
  LET before == InLaneBefore(group, p, lane)
      last   == CHOOSE q \in before : \A r \in before : r <= q
  IN  /\ before # {}
      /\ timeToMins(group[last].endTime) <= timeToMins(group[p].startTime)

\* the lanes of a group follow first fit
LanesFirstFit(group) ==
  \A p \in 1..Len(group) :
    LET lane == columns[group[p].id].col
    IN  /\ LaneFree(group, p, lane) \/ InLaneBefore(group, p, lane) = {}
        /\ \A j \in 0..(lane - 1) :
             InLaneBefore(group, p, j) # {} /\ ~LaneFree(group, p, j)

\* C30: within a group, taken in the order of the start times, each task is in
\* the lowest lane whose last-placed task ends at or before the task's start;
\* a task is in a lane k > 0 only if, when it is placed, the last task of every
\* lane j < k ends after the task's start.
FirstFitLanes ==
  loaded =>
    LET groups == groupsOf(DayTasks)
    IN  \A g \in 1..Len(groups) : LanesFirstFit(groups[g])

\* the fourth task of a group of three lanes was put in lane 0 although lane 2
\* was free as well, and the third in lane 2 because lanes 0 and 1 were taken
FirstFitLanesWitness ==
  /\ loaded
  /\ Len(groupsOf(DayTasks)) = 1
  /\ Len(DayTasks) = 4
  /\ LET group == groupsOf(DayTasks)[1]
     IN  /\ columns[group[3].id].col = 2
         /\ ~LaneFree(group, 3, 0) /\ ~LaneFree(group, 3, 1)
         /\ columns[group[4].id].col = 0
         /\ LaneFree(group, 4, 0) /\ LaneFree(group, 4, 2)

(***************************************************************************)
(* Properties of the clock conversions.                                    *)
(***************************************************************************)
Converted == clock # JNull /\ clock.out # JNull

\* C25: on the minutes 0..1439 and on the texts 00:00..23:59 the conversions of
\* each process undo each other, and the two processes give the same results.
ClockBijection ==
  Converted =>
    /\ clock.out.mainBack = clock.arg
    /\ clock.out.rendererBack = clock.arg
    /\ clock.out.main = clock.out.renderer
    /\ clock.kind = "minutes" => clock.out.main \in ClockTexts
    /\ clock.kind = "text" => clock.out.main \in DayMinutes

\* 01:05 was parsed to 65 minutes by both processes and written back
ClockBijectionWitness ==
  /\ Converted
  /\ clock.kind = "text"
  /\ clock.arg = <<"0", "1", ":", "0", "5">>
  /\ clock.out.main = 65 /\ clock.out.renderer = 65
  /\ clock.out.rendererBack = clock.arg

(***************************************************************************)
(* Properties of the grouping sweep of computeColumns.                     *)
(***************************************************************************)
RECURSIVE sweepGroups(_, _, _, _)
\* the sweep with one open group: the task at position i joins the group
\* opened last when it starts before the running maximum end of that group,
\* and opens a group otherwise
sweepGroups(sorted, i, groups, openEnd) ==
  IF i > Len(sorted) THEN groups
  ELSE LET start == timeToMins(sorted[i].startTime)
           end   == timeToMins(sorted[i].endTime)
       IN  IF groups # <<>> /\ start < openEnd
           THEN sweepGroups(sorted, i + 1,
                            [groups EXCEPT ![Len(groups)] = Append(@, sorted[i])],
                            Max(openEnd, end))
           ELSE sweepGroups(sorted, i + 1, Append(groups, <<sorted[i]>>), end)

\* C31: the groups the code builds, scanning all groups from the oldest, are
\* the groups of the sweep with one open group: in start order a task joins the
\* group opened last or opens a group, and never joins an older one.
GroupsAreSweep ==
  loaded =>
    LET sorted == sortByStartTime(DayTasks)
        groups == groupsOf(DayTasks)
    IN  /\ groups = sweepGroups(sorted, 1, <<>>, 0)
        /\ flatten(groups) = sorted

\* a task passed an older group that had ended and joined the group opened last
GroupsAreSweepWitness ==
  /\ loaded
  /\ Len(DayTasks) = 4
  /\ Len(groupsOf(DayTasks)) = 2
  /\ Len(groupsOf(DayTasks)[1]) = 2
  /\ Len(groupsOf(DayTasks)[2]) = 2

(***************************************************************************)
(* Properties of the drag gesture under the interleaving of mouse moves,   *)
(* animation frames and the release.                                       *)
(***************************************************************************)
\* the step releases the button of the running gesture
Releases == gesture # JNull /\ gesture' = JNull

\* the release opens the edit modal of the pressed task
OpensEdit == editState' = [task |-> gesture.task, isNew |-> FALSE]

\* C32 (as claimed): a release is treated as a click, the edit modal opened, if
\* and only if the pointer never moved more than 3 pixels from where it was
\* pressed, whatever the order of moves, frames and the release.
ClickIffNear == [][Releases => (OpensEdit <=> ~gesture.far)]_vars

\* the step leaves the list as it is but for startTime and endTime of the task
\* with this id
OnlyTimesOf(id) ==
  /\ Len(tasks') = Len(tasks)
  /\ \A i \in 1..Len(tasks) :
       IF tasks[i].id = id
       THEN tasks'[i] = [tasks[i] EXCEPT !.startTime = tasks'[i].startTime,
                                         !.endTime = tasks'[i].endTime]
       ELSE tasks'[i] = tasks[i]

\* the step runs the frame of a gesture that was released, no button pressed since
RunsFrameAfterRelease ==
  pending # <<>> /\ pending' = Tail(pending) /\ dragStateRef = JNull

\* C33: while a gesture lasts every step changes at most startTime and endTime
\* of the pressed task, and a frame that runs after the release, no button
\* pressed since, leaves the task list as it is.
DragTouchesOnlyTimes ==
  [][/\ gesture # JNull => OnlyTimesOf(gesture.task.id)
     /\ RunsFrameAfterRelease => tasks' = tasks]_vars

\* a block was dragged away from its start beside another task, and the frame
\* its last move had requested ran after the drop
DragTouchesOnlyTimesWitness ==
  /\ prev # JNull /\ prev.op = "lateFrame" /\ prev.drag = JNull
  /\ Len(tasks) = 2
  /\ \E i \in 1..Len(tasks) :
       /\ tasks[i].id = prev.task.id
       /\ tasks[i].startTime # prev.task.startTime

(***************************************************************************)
(* Properties of the order and the repetition of fallbackOptimize.         *)
(***************************************************************************)
\* C34: of two flexible tasks that were both placed, the one that comes later
\* in the order of sortedFlex starts in the output at or after the end of the
\* one that comes earlier.
PlacedOrderKept ==
  pc = "done" =>
    LET sortedFlex == SortedFlex
        slotted    == SlottedIds
        out        == OutputIntervals
    IN  \A k \in 1..Len(sortedFlex) : \A l \in (k + 1)..Len(sortedFlex) :
          (sortedFlex[k].id \in slotted /\ sortedFlex[l].id \in slotted) =>
            out[InputIndex(sortedFlex[l].id)].start >= out[InputIndex(sortedFlex[k].id)].end

\* an hour that starts first was placed at 08:30, behind the fixed task of
\* 07:30-08:30, and a quarter of an hour that starts later was placed behind
\* it although 07:00-07:15 was free
PlacedOrderKeptWitness ==
  /\ pc = "done"
  /\ \E i \in 1..Len(Input) :
       ~Flexible(i) /\ InputInterval(i) = [start |-> 450, end |-> 510]
  /\ Len(SortedFlex) = 2
  /\ SortedFlex[1].id \in SlottedIds /\ SortedFlex[2].id \in SlottedIds
  /\ Interval(SortedFlex[1]) = [start |-> 420, end |-> 480]
  /\ Interval(SortedFlex[2]) = [start |-> 540, end |-> 555]
  /\ OutputIntervals[InputIndex(SortedFlex[1].id)] = [start |-> 510, end |-> 570]
  /\ OutputIntervals[InputIndex(SortedFlex[2].id)] = [start |-> 570, end |-> 585]

\* every flexible task of positive duration was placed
AllPlaced ==
  \A i \in 1..Len(Input) :
    (Flexible(i) /\ PositiveDuration(i)) => Input[i].id \in SlottedIds

\* fallbackOptimize applied to the tasks it has returned
Again == fallbackOptimize([state EXCEPT !.tasks = Output]).tasks

\* the task has the same startTime and endTime in the list
SameTimesIn(list, task) ==
  \E k \in 1..Len(list) :
    /\ list[k].id = task.id
    /\ list[k].startTime = task.startTime
    /\ list[k].endTime = task.endTime

\* C36: when every flexible task of positive duration was placed,
\* fallbackOptimize applied to its own output returns every task with the
\* startTime and endTime it has in that output.
RepeatKeepsTimes ==
  (pc = "done" /\ AllPlaced) =>
    LET again == Again
    IN  /\ Len(again) = Len(Output)
        /\ \A j \in 1..Len(Output) : SameTimesIn(again, Output[j])

\* two flexible tasks were moved behind the fixed task of 07:30-08:30, and the
\* second run leaves them where the first had put them
RepeatKeepsTimesWitness ==
  /\ PlacedOrderKeptWitness
  /\ AllPlaced
  /\ \A j \in 1..Len(Output) : SameTimesIn(Again, Output[j])
  /\ \E i \in 1..Len(Input) : Flexible(i) /\ ~KeepsTimes(i)

(***************************************************************************)
(* Properties of the number of lanes computeColumns gives a group.         *)
(***************************************************************************)
\* the tasks of the group whose interval [start, end) holds the minute
Covering(group, minute) ==
  { p \in 1..Len(group) :
      /\ timeToMins(group[p].startTime) <= minute
      /\ minute < timeToMins(group[p].endTime) }

\* the largest number of tasks of the group that hold one minute in common;
\* tasks that share a minute share the latest of their starts, so the minutes
\* looked at are the starts of the tasks
Depth(group) ==
  LET starts == { timeToMins(group[p].startTime) : p \in 1..Len(group) }
      counts == { Cardinality(Covering(group, minute)) : minute \in starts }
  IN  CHOOSE n \in counts : \A m \in counts : m <= n

\* C35: when every task of the day has a positive duration, the lane count of
\* a group is the largest number of its tasks that hold an instant in common.
LanesAreDepth ==
  (loaded /\ PositiveDurations) =>
    LET groups == groupsOf(DayTasks)
    IN  \A g \in 1..Len(groups) :
          LET depth == Depth(groups[g])
          IN  \A p \in 1..Len(groups[g]) : columns[groups[g][p].id].totalCols = depth

\* a group of three tasks, the third touching the first, has two lanes
LanesAreDepthWitness ==
  /\ loaded /\ PositiveDurations
  /\ \E g \in 1..Len(groupsOf(DayTasks)) :
       LET group == groupsOf(DayTasks)[g]
       IN  /\ Len(group) = 3
           /\ group[3].startTime = group[1].endTime
           /\ columns[group[3].id].totalCols = 2
           /\ Depth(group) = 2

(***************************************************************************)
(* The request optimizePlanWithOllama builds (ollama.ts 41-70, 280-302).   *)
(* A text is a sequence of pieces; its characters outside ASCII are        *)
(* written (U+2022), (U+2013) and (U+2014).                                *)
(***************************************************************************)
\* tasks of a state whose request is built
MaxPlanned == 2

Tag(id, name) == [id |-> id, name |-> name, color |-> "#6C8CFF"]

\* the tag lists of the states: none, or the tag Work
PlannedTags == {<<>>, <<Tag("tag-work", "Work")>>}

\* the times of their tasks: 15 minutes, an hour, no duration, 17 hours 30
PlannedTimes == {<<T0900, T0915>>, <<T0700, T0800>>, <<T1000, T1000>>, <<T0600, T2330>>}

\* tagId, notes and fixed of their tasks
PlannedLabels == {<<"null", "", 0>>, <<"null", "note", 1>>,
                  <<"tag-work", "", 1>>, <<"tag-work", "note", 0>>}

\* what varies in a task but its id: <<times, <<tagId, notes, fixed>>>>
PlannedFields == PlannedTimes \X PlannedLabels

PlannedTask(id, f) ==
  [DbTask(id, f[1], "2026-01-01", f[2][3]) EXCEPT !.tagId = f[2][1], !.notes = f[2][2]]

\* Array.prototype.join
RECURSIVE join(_, _)
join(texts, sep) ==
  IF texts = <<>> THEN <<>>
  ELSE IF Len(texts) = 1 THEN texts[1]
  ELSE texts[1] \o <<sep>> \o join(Tail(texts), sep)

\* tagMap.get(id): the last tag of the list with the id, or undefined
tagMapGet(tgs, id) ==
  LET hits == { i \in 1..Len(tgs) : tgs[i].id = id }
  IN  IF hits = {} THEN JUndefined
      ELSE tgs[CHOOSE i \in hits : \A j \in hits : j <= i]

durationLabel(start, end) ==
  LET s    == split(start, ":")
      e    == split(end, ":")
      mins == Number(e[1]) * 60 + Number(e[2]) - (Number(s[1]) * 60 + Number(s[2]))
      h    == mins \div 60
      m    == mins % 60
  IN  IF mins <= 0 THEN <<"?">>
      ELSE IF mins < 60 THEN String(mins) \o <<"m">>
      ELSE IF m > 0 THEN String(h) \o <<"h", " ">> \o String(m) \o <<"m">>
      ELSE String(h) \o <<"h">>

\* mutant: the line of a task starts with its id
planLineWithId(tgs, task) ==
  LET tag      == IF task.tagId # "null" THEN tagMapGet(tgs, task.tagId) ELSE JUndefined
      category == IF tag # JUndefined THEN tag.name ELSE "Uncategorized"
      status   == IF task.fixed # 0 THEN "FIXED" ELSE "flexible"
      duration == durationLabel(task.startTime, task.endTime)
      notes    == IF task.notes # "" THEN <<" | Notes: ", task.notes>> ELSE <<>>
  IN  <<task.id, "  (U+2022) [">> \o task.startTime \o <<"(U+2013)">> \o task.endTime
        \o <<"] (">> \o duration \o <<") ", task.title, " (U+2014) ", category,
                                       " (U+2014) ", status>> \o notes

\* the callback of .map in buildPlanSummary: the line of a task
planLine(tgs, task) ==
  LET tag      == IF task.tagId # "null" THEN tagMapGet(tgs, task.tagId) ELSE JUndefined
      category == IF tag # JUndefined THEN tag.name ELSE "Uncategorized"
      status   == IF task.fixed # 0 THEN "FIXED" ELSE "flexible"
      duration == durationLabel(task.startTime, task.endTime)
      notes    == IF task.notes # "" THEN <<" | Notes: ", task.notes>> ELSE <<>>
  IN  <<"  (U+2022) [">> \o task.startTime \o <<"(U+2013)">> \o task.endTime
        \o <<"] (">> \o duration \o <<") ", task.title, " (U+2014) ", category,
                                       " (U+2014) ", status>> \o notes

buildPlanSummary(st) ==
  IF Len(st.tasks) = 0 THEN <<"The day plan is currently empty.">>
  ELSE LET sorted == sortByStartTime(st.tasks)
           lines  == join([i \in 1..Len(sorted) |-> planLine(st.tags, sorted[i])], "\n")
       IN  <<"Day plan (">> \o String(Len(st.tasks)) \o <<" tasks):", "\n">> \o lines

\* the system message of optimizePlanWithOllama
OptimizerRules ==
  join(<<<<"You are a scheduling optimizer. Your job is to return a JSON object (U+2014) nothing else.">>,
         <<"Schema: { \"summary\": \"<one sentence describing what changed>\", \"tasks\": [ { \"id\": \"<task id>\", \"startTime\": \"HH:MM\", \"endTime\": \"HH:MM\" }, ... ] }">>,
         <<"Rules:">>,
         <<"1. NEVER change tasks marked as FIXED.">>,
         <<"2. Only adjust flexible tasks.">>,
         <<"3. Minimize context switching by grouping similar categories together.">>,
         <<"4. Avoid scheduling tasks before 07:00 or after 22:00.">>,
         <<"5. Ensure no two tasks overlap.">>,
         <<"6. Preserve task durations (do not make tasks shorter or longer).">>,
         <<"7. Return valid JSON only. No markdown, no explanation outside the JSON.">>>>,
       " ")

ChatMessage(role, content) == [role |-> role, content |-> content]

\* [system, user] of optimizePlanWithOllama
optimizerMessages(st) ==
  <<ChatMessage("system", OptimizerRules),
    ChatMessage("user", buildPlanSummary(st)
                          \o <<"\n\nOptimize the schedule for this day. Return JSON only.">>)>>

\* optimizePlanWithOllama up to its await: callAvailableProvider([system, user])
buildRequest ==
  /\ pc = "call"
  /\ call' = [kind |-> "optimize", messages |-> optimizerMessages(state)]
  /\ pc' = "await"
  /\ UNCHANGED <<state, reply, result, clock, env, runtimeVars, sent, rendererVars>>

\* a state of up to MaxPlanned tasks with the ids of IdPool
RequestInit ==
  /\ \E tgs \in PlannedTags : \E n \in 0..MaxPlanned : \E f \in [1..n -> PlannedFields] :
       state = [tags |-> tgs, tasks |-> [i \in 1..n |-> PlannedTask(IdPool[i], f[i])]]
  /\ pc = "call"
  /\ reply = JNull
  /\ result = JNull
  /\ ServiceIdle
  /\ Mounted

RequestNext == buildRequest

RequestSpec == RequestInit /\ [][RequestNext]_vars

(***************************************************************************)
(* Properties of the request.                                              *)
(***************************************************************************)
\* the ids a task is given in place of its own
OtherIds == {"task-9", "uuid-1"}

\* the state with the id of its i-th task replaced by ids[i]
WithIds(st, ids) ==
  [st EXCEPT !.tasks = [i \in 1..Len(st.tasks) |-> [st.tasks[i] EXCEPT !.id = ids[i]]]]

Requested == pc = "await" /\ call # JNull

\* C37: a state that differs from the state of the request in the ids of its
\* tasks only gives the same system and user messages.
RequestWithoutIds ==
  Requested =>
    \A ids \in [1..Len(state.tasks) -> OtherIds] :
      optimizerMessages(WithIds(state, ids)) = call.messages

\* the request of two tasks, the later stored first, one tagged and with notes:
\* with other ids the messages are the same
RequestWithoutIdsWitness ==
  /\ Requested
  /\ Len(state.tasks) = 2
  /\ localeCompare(state.tasks[1].startTime, state.tasks[2].startTime) > 0
  /\ state.tags # <<>>
  /\ state.tasks[1].tagId = "tag-work" /\ state.tasks[1].notes = "note"
  /\ state.tasks[2].tagId = "null"
  /\ optimizerMessages(WithIds(state, <<"uuid-1", "task-9">>)) = call.messages
  /\ Len(call.messages[2].content) > Len(buildPlanSummary(PlannerState(<<>>))) + 1

(***************************************************************************)
(* An optimization request from the click to the staged proposal, the user *)
(* dragging a block while the request is under way.                        *)
(***************************************************************************)
\* ipcRenderer.invoke('planner:optimize') rejects: the handler of the main
\* process threw, or the state could not be sent
invokeRejects ==
  /\ pc = "await"
  /\ result' = Rejected
  /\ pc' = "done"
  /\ UNCHANGED <<state, reply, serviceVars, rendererVars>>

SettleNext ==
  \/ LoadState
  \/ requestOptimization
  \/ handleTaskMouseDown
  \/ onMouseMove
  \/ applyDragFrame
  \/ onMouseUpAfterFrame
  \/ onClose
  \/ ProviderRejects
  \/ ProviderAdvises
  \/ invokeRejects
  \/ resumeRequestOptimization
  \/ discardOptimization

SettleSpec == Init /\ [][SettleNext]_vars

\* the await of requestOptimization has just settled
JustSettled == Last("resumeRequestOptimization")

\* the staged task is the returned task, its flags as booleans
StagedFrom(staged, returned) ==
  /\ staged.id = returned.id
  /\ staged.title = returned.title
  /\ staged.taskDate = returned.taskDate
  /\ staged.startTime = returned.startTime
  /\ staged.endTime = returned.endTime
  /\ staged.tagId = returned.tagId
  /\ staged.notes = returned.notes
  /\ staged.fixed = (returned.fixed # 0)
  /\ staged.done = (returned.done # 0)

\* C38: when the await of a request settles the busy flag is cleared and a
\* proposal is staged: after a result, the returned tasks and summary; after a
\* rejection, the task list of the click, with the times it had then.
RequestSettles ==
  JustSettled =>
    /\ ~optimizing
    /\ optimization # JNull
    /\ result.settled = "fulfilled" =>
         /\ optimization.summary = result.value.summary
         /\ Len(optimization.tasks) = Len(result.value.tasks)
         /\ \A i \in 1..Len(optimization.tasks) :
              StagedFrom(optimization.tasks[i], result.value.tasks[i])
    /\ result.settled = "rejected" =>
         /\ optimization.summary = CatchSummary
         /\ Len(optimization.tasks) = Len(state.tasks)
         /\ \A i \in 1..Len(optimization.tasks) :
              StagedFrom(optimization.tasks[i], state.tasks[i])

\* the request was rejected after a block had been dragged away: the proposal
\* holds the list of the click, not the live list
RequestSettlesWitness ==
  /\ JustSettled
  /\ result.settled = "rejected"
  /\ optimization # JNull /\ ~optimizing
  /\ optimization.tasks # tasks
  /\ toDbState(tags, optimization.tasks) = state

(***************************************************************************)
(* The renderer: the tags of the sidebar (index.ts 608-618, 859-884), with *)
(* the task handlers, the drag and the proposal.                           *)
(***************************************************************************)
\* the name typed into the field of the new tag
NewTagNames == {"Home"}

\* the tag, if any, of the stored tasks, by position
SeedTagIds == {<<"tag-work", "null">>, <<"null", "tag-work">>, <<"tag-work", "tag-work">>}

\* window.planner.getState() resolves with the tag Work and one or two tasks of
\* the day, each with that tag or with none
LoadTagged ==
  /\ ~loaded
  /\ \E n \in 1..2 : \E tagIds \in SeedTagIds :
       LET stored == [tags  |-> <<Tag("tag-work", "Work")>>,
                      tasks |-> [i \in 1..n |->
                                  [DbTask(IdPool[i], SeedTimes[i], selectedDate, 0)
                                     EXCEPT !.tagId = tagIds[i]]]]
           norm   == normalizeState(stored)
       IN  tags' = norm.tags /\ tasks' = norm.tasks
  /\ loaded' = TRUE
  /\ prev' = JNull
  /\ UNCHANGED <<optimizerVars, selectedDate, editState, optimization, optimizing,
                 captured, uuids, gestures, dragStateRef, gesture, pending, tagFilter>>
  /\ Render

\* a name is typed and "Add" is clicked; the field is empty again afterwards
handleAddTag ==
  /\ loaded /\ PageFree
  /\ gestures < MaxGestures
  /\ \E name \in NewTagNames :
       tags' = Append(tags, [id |-> randomUUID, name |-> name, color |-> "#6c63ff"])
  /\ uuids' = uuids + 1
  /\ gestures' = gestures + 1
  /\ prev' = JNull
  /\ UNCHANGED <<optimizerVars, loaded, tasks, selectedDate, editState, optimization,
                 optimizing, captured, dragStateRef, gesture, pending, tagFilter>>
  /\ Render

\* the delete button of a tag of the sidebar
handleDeleteTag ==
  /\ loaded /\ PageFree
  /\ \E k \in 1..Len(tags) :
       LET id == tags[k].id
       IN  /\ tags' = SelectSeq(tags, LAMBDA t : t.id # id)
           /\ tasks' = [i \in 1..Len(tasks) |->
                          IF tasks[i].tagId = id THEN [tasks[i] EXCEPT !.tagId = "null"]
                          ELSE tasks[i]]
           /\ tagFilter' = IF tagFilter = id THEN "null" ELSE tagFilter
  /\ prev' = JNull
  /\ UNCHANGED <<optimizerVars, loaded, selectedDate, editState, optimization,
                 optimizing, captured, uuids, gestures, dragStateRef, gesture, pending>>
  /\ Render

\* a click on "All tasks" or on a tag of the sidebar: the filter is set, or
\* cleared when the tag is the filter already
setTagFilter ==
  /\ loaded /\ PageFree
  /\ \/ tagFilter' = "null"
     \/ \E k \in 1..Len(tags) :
          tagFilter' = IF tagFilter = tags[k].id THEN "null" ELSE tags[k].id
  /\ tagFilter' # tagFilter
  /\ prev' = JNull
  /\ UNCHANGED <<optimizerVars, loaded, tags, tasks, selectedDate, editState,
                 optimization, optimizing, captured, uuids, gestures, dragStateRef,
                 gesture, pending>>
  /\ Render

TagNext ==
  \/ LoadTagged
  \/ handleAddTag
  \/ handleDeleteTag
  \/ setTagFilter
  \/ openNewTask
  \/ handleSaveTask
  \/ handleDeleteTask
  \/ onClose
  \/ handleTaskMouseDown
  \/ onMouseMove
  \/ applyDragFrame
  \/ onMouseUpAfterFrame
  \/ requestOptimization
  \/ ProviderRejects
  \/ ProviderAdvises
  \/ resumeRequestOptimization
  \/ applyOptimization
  \/ discardOptimization

TagSpec == Init /\ [][TagNext]_vars

\* C39 (as claimed): whatever tags were created and deleted, tasks created,
\* edited, deleted and dragged, proposals requested and applied, the tagId of
\* every task of the live list is null or the id of a tag of the tag list.
TagsIntact ==
  \A i \in 1..Len(tasks) :
    tasks[i].tagId = "null" \/ \E k \in 1..Len(tags) : tags[k].id = tasks[i].tagId

(***************************************************************************)
(* The embedded runtime: initEmbeddedRuntime, the events of its child and  *)
(* stopEmbeddedRuntime (ai-runtime.ts 89-146; unnamed/part_002 141-222).   *)
(***************************************************************************)
\* calls of initEmbeddedRuntime in one run
MaxInits == 3

Alive(k) == children[k] = "alive"

\* what await isHealthy() can give: the runtime answers only while a child runs
Healths == IF \E k \in 1..Len(children) : Alive(k) THEN BOOLEAN ELSE {FALSE}

\* initEmbeddedRuntime is called (app start, getAiStatus, callAvailableProvider): it
\* returns at once when the runtime is disabled or the bundled files are
\* missing, and awaits isHealthy() otherwise
initEmbeddedRuntime ==
  /\ Len(inits) < MaxInits
  /\ inits' = Append(inits, IF ~EMBEDDED_ENABLED(env) \/ ~env.assets THEN "returned"
                            ELSE "health")
  /\ UNCHANGED <<state, pc, reply, result, clock, env, call, sent, runtimeProcess,
                 runtimeStarted, lastRuntimeError, children, rendererVars>>

\* the first await isHealthy() of a call settles: a healthy runtime is taken
\* as it is; otherwise a child is spawned unless runtimeProcess is set, and the
\* call waits for the runtime.  A spawn can fail (the file cannot be run).
resumeAfterHealth ==
  \E c \in 1..Len(inits) :
    /\ inits[c] = "health"
    /\ \E healthy \in Healths :
         IF healthy
         THEN /\ runtimeStarted' = TRUE
              /\ lastRuntimeError' = "undefined"
              /\ inits' = [inits EXCEPT ![c] = "returned"]
              /\ UNCHANGED <<runtimeProcess, children>>
         ELSE /\ inits' = [inits EXCEPT ![c] = "poll"]
              /\ UNCHANGED <<runtimeStarted, lastRuntimeError>>
              /\ IF runtimeProcess = NoChild
                 THEN /\ \E status \in {"alive", "failed"} :
                           children' = Append(children, status)
                      /\ runtimeProcess' = Len(children) + 1
                 ELSE UNCHANGED <<runtimeProcess, children>>
    /\ UNCHANGED <<state, pc, reply, result, clock, env, call, sent, rendererVars>>

\* an await isHealthy() of the wait settles: a healthy runtime ends the wait,
\* and so does the last attempt; an earlier attempt that fails changes nothing
resumeAfterPoll ==
  \E c \in 1..Len(inits) :
    /\ inits[c] = "poll"
    /\ \E healthy \in Healths :
         IF healthy
         THEN /\ runtimeStarted' = TRUE
              /\ lastRuntimeError' = "undefined"
         ELSE UNCHANGED <<runtimeStarted, lastRuntimeError>>
    /\ inits' = [inits EXCEPT ![c] = "returned"]
    /\ UNCHANGED <<state, pc, reply, result, clock, env, call, sent, runtimeProcess,
                   children, rendererVars>>

\* the 'exit' event of a child that ran, by itself or after kill()
onExit ==
  \E k \in 1..Len(children) :
    /\ children[k] \in {"alive", "killed"}
    /\ children' = [children EXCEPT ![k] = "gone"]
    /\ runtimeProcess' = NoChild
    /\ runtimeStarted' = FALSE
    /\ lastRuntimeError' = IF env.build = "unnamed/part_002" THEN "exited"
                           ELSE lastRuntimeError
    /\ UNCHANGED <<state, pc, reply, result, clock, env, call, sent, inits, rendererVars>>

\* the 'error' event of a child whose spawn failed; src/main/ai-runtime.ts has
\* no listener for it
onError ==
  \E k \in 1..Len(children) :
    /\ children[k] = "failed"
    /\ children' = [children EXCEPT ![k] = "gone"]
    /\ lastRuntimeError' = IF env.build = "unnamed/part_002" THEN "error"
                           ELSE lastRuntimeError
    /\ UNCHANGED <<state, pc, reply, result, clock, env, call, sent, runtimeProcess,
                   runtimeStarted, inits, rendererVars>>

\* stopEmbeddedRuntime (app.on('before-quit')): kill() signals the child and
\* returns, the child's exit event comes later.  With no child and
\* runtimeStarted false the call sets what is set already.
stopEmbeddedRuntime ==
  /\ runtimeProcess # NoChild \/ runtimeStarted
  /\ IF runtimeProcess # NoChild
     THEN /\ children' = [children EXCEPT ![runtimeProcess] =
                            IF @ = "alive" THEN "killed" ELSE @]
          /\ runtimeProcess' = NoChild
     ELSE UNCHANGED <<runtimeProcess, children>>
  /\ runtimeStarted' = FALSE
  /\ UNCHANGED <<state, pc, reply, result, clock, env, call, sent, lastRuntimeError,
                 inits, rendererVars>>

RuntimeInit ==
  /\ state = PlannerState(<<>>)
  /\ pc = "idle"
  /\ reply = JNull
  /\ result = JNull
  /\ clock = JNull
  /\ env \in Envs
  /\ call = JNull
  /\ sent = <<>>
  /\ RuntimeIdle
  /\ Mounted

RuntimeNext ==
  \/ initEmbeddedRuntime
  \/ resumeAfterHealth
  \/ resumeAfterPoll
  \/ onExit
  \/ onError
  \/ stopEmbeddedRuntime

RuntimeSpec == RuntimeInit /\ [][RuntimeNext]_vars

\* C40 (as claimed): whatever the order of the calls of initEmbeddedRuntime,
\* the events of the children and stopEmbeddedRuntime, at most one spawned
\* child is alive, and runtimeProcess is set exactly while one is.  A child that
\* kill() has signalled counts as not alive.
OneChildAlive ==
  /\ Cardinality({ k \in 1..Len(children) : Alive(k) }) <= 1
  /\ runtimeProcess # NoChild <=> \E k \in 1..Len(children) : Alive(k)

=============================================================================
